------------------------------ MODULE MacDump ------------------------------
(***************************************************************************)
(* A snapshot of the MAC table for the web page: the dump engine writes    *)
(* the table to DDR chunk by chunk (mac_table_dump.sv), the driver hands   *)
(* the staging buffer over and back around a non-coherent cache            *)
(* (mac_dump.c), and web_mac_table copies complete dumps to a published    *)
(* snapshot that pages are served from (mac_table_web.c).  Its calls are   *)
(* serialised by mac_table_lock (HttpServer).  The contents of a chunk are *)
(* reduced to the dump that read it, 0 being the zeroes of start-up.       *)
(***************************************************************************)
EXTENDS Naturals

CONSTANTS
    Chunks,      \* bursts of a dump (128)
    Eras,        \* dumps told apart before their numbers repeat
    Generations, \* generations before the counter wraps (2^32)
    NoLine

DumpAssumption == Chunks \in Nat /\ Chunks > 1 /\ Eras \in Nat \ {0} /\ Generations \in Nat /\ Generations > 2

VARIABLES
    dumper,      \* the engine: phase, chunk, completed, done, error
    abi,         \* the image has the engine
    ddr,         \* staging, in memory
    cache,       \* staging, in the CPU's cache: NoLine or a line
    owned,       \* mac_dump.c
    busy, ready, generation, error, published,   \* mac_table_web.c
    web_pc, refresh,   \* the call of web_mac_table in progress
    dump_era,    \* ghost: the number of the last dump
    browser      \* ghost: a browser reading the pages one after the other

webVars == <<busy, ready, generation, error, published>>
dumpVars == <<dumper, abi, ddr, cache, owned, webVars, web_pc, refresh, dump_era, browser>>

Chunk == 1..Chunks
Started == [phase |-> "read", chunk |-> 1, completed |-> 0, done |-> FALSE, error |-> FALSE]
DumpReset == [Started EXCEPT !.phase = "idle"]
Line(e, d) == [era |-> e, dirty |-> d]
NoPage == [next |-> 1, gen |-> 0, eras |-> {}, missed |-> 0]

\* The start-up code zeroes staging and published through the cache.
Boot ==
    /\ cache' = [c \in Chunk |-> Line(0, TRUE)]
    /\ owned' = FALSE /\ busy' = FALSE /\ ready' = FALSE /\ generation' = 0 /\ error' = 0
    /\ published' = [c \in Chunk |-> 0] /\ web_pc' = "idle" /\ refresh' = FALSE /\ browser' = NoPage

DumpInit ==
    /\ dumper = DumpReset /\ abi \in BOOLEAN /\ dump_era = 0
    /\ ddr = [c \in Chunk |-> 0] /\ cache = [c \in Chunk |-> Line(0, TRUE)]
    /\ owned = FALSE /\ busy = FALSE /\ ready = FALSE /\ generation = 0 /\ error = 0
    /\ published = [c \in Chunk |-> 0] /\ web_pc = "idle" /\ refresh = FALSE /\ browser = NoPage

(***************************************************************************)
(* The engine.                                                             *)
(***************************************************************************)
dumpRest == <<abi, cache, owned, webVars, web_pc, refresh, dump_era, browser>>
Running == dumper.phase # "idle"

\* A chunk is read from the table, admitted and written by one burst.
Burst ==
    /\ dumper.phase = "read"
    /\ ddr' = [ddr EXCEPT ![dumper.chunk] = dump_era] /\ dumper' = [dumper EXCEPT !.phase = "resp"]
    /\ UNCHANGED dumpRest

Response ==
    /\ dumper.phase = "resp"
    /\ \/ dumper' = [dumper EXCEPT !.phase = "idle", !.done = TRUE, !.error = TRUE]
       \/ /\ dumper.chunk = Chunks
          /\ dumper' = [dumper EXCEPT !.phase = "idle", !.done = TRUE, !.completed = @ + 1]
       \/ /\ dumper.chunk # Chunks
          /\ dumper' = [dumper EXCEPT !.phase = "read", !.chunk = @ + 1, !.completed = @ + 1]
    /\ UNCHANGED <<ddr, dumpRest>>

(***************************************************************************)
(* The cache, at any time: dirty lines are written back, lines are fetched *)
(* speculatively.                                                          *)
(***************************************************************************)
WrittenBack(c) == IF cache[c] # NoLine /\ cache[c].dirty THEN cache[c].era ELSE ddr[c]
Evict(c) ==
    /\ cache[c] # NoLine /\ cache' = [cache EXCEPT ![c] = NoLine]
    /\ ddr' = [ddr EXCEPT ![c] = WrittenBack(c)]
    /\ UNCHANGED <<dumper, abi, owned, webVars, web_pc, refresh, dump_era, browser>>
Prefetch(c) ==
    /\ cache[c] = NoLine /\ cache' = [cache EXCEPT ![c] = Line(ddr[c], FALSE)]
    /\ UNCHANGED <<dumper, abi, ddr, owned, webVars, web_pc, refresh, dump_era, browser>>
Seen(c) == IF cache[c] = NoLine THEN ddr[c] ELSE cache[c].era

(***************************************************************************)
(* web_mac_table, mac_dump_poll and mac_dump_start.                        *)
(***************************************************************************)
Ended == owned /\ ~Running /\ dumper.done

Poll(r) ==
    /\ web_pc = "idle" /\ refresh' = r
    /\ IF busy /\ Ended
       THEN web_pc' = "publish" /\ owned' = FALSE /\ cache' = [c \in Chunk |-> NoLine]
       ELSE web_pc' = "refresh" /\ UNCHANGED <<owned, cache>>
    /\ UNCHANGED <<dumper, abi, ddr, webVars, dump_era, browser>>

Complete == ~dumper.error /\ dumper.completed = Chunks

NextGeneration == IF generation + 1 = Generations THEN 1 ELSE generation + 1

\* A browser does not span the wrap of the generation.
Missed ==
    browser' = IF browser.next = 1 THEN browser
            ELSE IF browser.missed + 2 = Generations THEN NoPage ELSE [browser EXCEPT !.missed = @ + 1]

\* Mutant: the snapshot is replaced under its old generation.
PublishDump_again ==
    /\ web_pc = "publish" /\ web_pc' = "refresh" /\ busy' = FALSE /\ Missed
    /\ IF Complete
       THEN /\ published' = [c \in Chunk |-> Seen(c)] /\ ready' = TRUE
            /\ generation' = (IF ready THEN generation ELSE NextGeneration) /\ error' = 0
       ELSE error' = 1 /\ UNCHANGED <<ready, generation, published>>
    /\ cache' = IF Complete THEN [c \in Chunk |-> IF cache[c] = NoLine THEN Line(ddr[c], FALSE) ELSE cache[c]] ELSE cache
    /\ UNCHANGED <<dumper, abi, ddr, owned, refresh, dump_era>>

\* The copy reads staging through the cache.
PublishDump ==
    /\ web_pc = "publish" /\ web_pc' = "refresh" /\ busy' = FALSE /\ Missed
    /\ IF Complete
       THEN /\ published' = [c \in Chunk |-> Seen(c)] /\ ready' = TRUE /\ generation' = NextGeneration /\ error' = 0
            /\ cache' = [c \in Chunk |-> IF cache[c] = NoLine THEN Line(ddr[c], FALSE) ELSE cache[c]]
       ELSE error' = 1 /\ UNCHANGED <<ready, generation, published, cache>>
    /\ UNCHANGED <<dumper, abi, ddr, owned, refresh, dump_era>>

\* GET, a dump that is pending, or a start that is refused.
NoStart ==
    /\ web_pc = "refresh" /\ (~refresh \/ busy \/ owned \/ ~abi \/ Running)
    /\ error' = IF refresh /\ ~busy THEN 1 ELSE error
    /\ web_pc' = "output" /\ UNCHANGED <<dumper, abi, ddr, cache, owned, busy, ready, generation, published, refresh, dump_era, browser>>

\* Xil_DCacheFlushRange cleans and invalidates.
Flush ==
    /\ web_pc = "refresh" /\ refresh /\ ~busy /\ ~owned /\ abi /\ ~Running
    /\ owned' = TRUE /\ web_pc' = "start" /\ cache' = [c \in Chunk |-> NoLine]
    /\ ddr' = [c \in Chunk |-> WrittenBack(c)]
    /\ UNCHANGED <<dumper, abi, webVars, refresh, dump_era, browser>>

StartDump ==
    /\ web_pc = "start" /\ dumper' = Started /\ dump_era' = (dump_era % Eras) + 1
    /\ busy' = TRUE /\ error' = 0 /\ web_pc' = "output"
    /\ UNCHANGED <<abi, ddr, cache, owned, ready, generation, published, refresh, browser>>

\* The answer: the status, or to a browser the next page; one that sees
\* another generation, or none, starts again.
Reply ==
    /\ web_pc = "output" /\ web_pc' = "idle" /\ refresh' = FALSE
    /\ \/ UNCHANGED browser
       \/ /\ ~refresh /\ ready
          /\ browser' = IF browser.next # 1 /\ browser.gen = generation
                     THEN LET eras == browser.eras \union {published[browser.next]}
                          IN IF browser.next = Chunks THEN [NoPage EXCEPT !.eras = eras]
                             ELSE [browser EXCEPT !.next = @ + 1, !.eras = eras]
                     ELSE [next |-> 2, gen |-> generation, eras |-> {published[1]}, missed |-> 0]
    /\ UNCHANGED <<dumper, abi, ddr, cache, owned, webVars, dump_era>>

\* The firmware restarts; the engine and its bursts go on.
RestartFirmware == Boot /\ UNCHANGED <<dumper, abi, ddr, dump_era>>

Call == PublishDump \/ NoStart \/ Flush \/ StartDump \/ Reply
DumpNext ==
    \/ Burst \/ Response \/ RestartFirmware \/ Call
    \/ \E c \in Chunk : Evict(c) \/ Prefetch(c)
    \/ \E r \in BOOLEAN : Poll(r)

DumpSpec == DumpInit /\ [][DumpNext]_dumpVars

\* Packets leave the engine room, a call runs on, and the page asks again
\* while a dump is pending.
Engine == Burst \/ Response
Page == Call \/ Poll(FALSE)
DumpFairSpec == DumpSpec /\ WF_dumpVars(Engine) /\ WF_dumpVars(Page)

(***************************************************************************)
(* Properties.                                                             *)
(***************************************************************************)
\* Every variable has its type.
DumpTypeOK ==
    /\ dumper \in [phase : {"idle", "read", "resp"}, chunk : Chunk, completed : 0..Chunks, done : BOOLEAN, error : BOOLEAN]
    /\ {abi, owned, busy, ready, refresh} \subseteq BOOLEAN /\ dump_era \in 0..Eras /\ error \in {0, 1}
    /\ ddr \in [Chunk -> 0..Eras] /\ published \in [Chunk -> 0..Eras]
    /\ cache \in [Chunk -> {NoLine} \union [era : 0..Eras, dirty : BOOLEAN]]
    /\ generation \in 0..(Generations - 1) /\ web_pc \in {"idle", "publish", "refresh", "start", "output"}
    /\ browser \in [next : Chunk, gen : 0..(Generations - 1), eras : SUBSET (0..Eras), missed : 0..(Generations - 2)]

\* Readers never touch DMA-owned DDR: the staging buffer is copied only when
\* the engine has stopped, whatever was restarted before.
CopyAfterDma == web_pc \in {"publish", "start"} => ~Running

\* mac_dump.c and mac_table_web.c agree on who has the staging buffer.
Handover ==
    /\ owned <=> (busy /\ web_pc # "publish") \/ web_pc = "start"
    /\ web_pc = "publish" => busy /\ dumper.done
    /\ web_pc = "start" => ~busy

\* The engine counts the chunks it has written, and all of them when it ends
\* without error.
EngineSound ==
    /\ Running => dumper.completed + 1 = dumper.chunk /\ ~dumper.done
    /\ dumper.done /\ ~dumper.error => dumper.completed = Chunks

\* While a dump is out, no dirty line can be written over it, and the chunks
\* written so far are its own; before the copy the cache holds only what is in
\* memory.
StagingSound ==
    /\ owned \/ busy => \A c \in Chunk : cache[c] = NoLine \/ ~cache[c].dirty
    /\ busy => \A c \in Chunk : c <= dumper.completed \/ (dumper.phase = "resp" /\ c = dumper.chunk) => ddr[c] = dump_era
    /\ web_pc = "publish" => \A c \in Chunk : cache[c] = NoLine \/ cache[c].era = ddr[c]

\* What is published was written by one complete dump, the last one, and
\* neither stale cache lines nor late write-backs are part of it.
PublishStep ==
    web_pc = "publish" /\ web_pc' = "refresh" /\ published' # published =>
        dumper.done /\ ~dumper.error /\ \A c \in Chunk : published'[c] = dump_era
PublishesOneDump == [][PublishStep]_dumpVars

\* A dump that fails leaves the last snapshot as it was, and an error.
FailureStep ==
    web_pc = "publish" /\ web_pc' = "refresh" /\ dumper.error => error' # 0 /\ UNCHANGED <<ready, generation, published>>
FailureReported == [][FailureStep]_dumpVars

\* The generation tells a snapshot from none.
GenerationZero == ready <=> generation # 0

\* Pages that carry one generation belong to one snapshot, however many
\* dumps are published between the requests of the browser.
PagesAgree == \A e, f \in browser.eras : e = f

\* The snapshot is one dump's.
OneSnapshot == \A c, d \in Chunk : published[c] = published[d]

\* The generation is at most missed publications ahead of the browser's, and the
\* same only when the browser reads the snapshot that is still published.
Ahead(g, k) == IF g + k < Generations THEN g + k ELSE g + k - (Generations - 1)
PageOfGeneration ==
    browser.next # 1 =>
        /\ browser.gen # 0
        /\ \E k \in 0..browser.missed :
              generation = Ahead(browser.gen, k) /\ (k = 0 => \A e \in browser.eras : e = published[1])

\* A pending dump is published or reported as long as the page asks.
Pending == busy
DumpEnds == []<>~Pending

\* The staging buffer is never read under the engine, and what the browser
\* puts together belongs together.
DumpInv ==
    /\ DumpTypeOK /\ CopyAfterDma /\ GenerationZero /\ PagesAgree
    /\ Handover /\ EngineSound /\ StagingSound /\ OneSnapshot /\ PageOfGeneration
=============================================================================
