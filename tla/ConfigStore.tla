----------------------------- MODULE ConfigStore -----------------------------
(***************************************************************************)
(* The saved settings: config.c, settings.c and settings_media.c.          *)
(*                                                                         *)
(* A card holds two files, each a record with a generation number, a CRC   *)
(* and a commit marker that is written last.  A save re-reads the card,    *)
(* truncates the file that does not hold the current generation, writes    *)
(* the record without its marker, reads it back, writes the marker and     *)
(* reads it all back.  Any of these steps may fail, leaving the file in    *)
(* any state the step can leave it in, and power may go at any point; what *)
(* a power cut in the middle of a step leaves is what a failed step does.  *)
(*                                                                         *)
(* A configuration is an opaque value (config_encode, config_decode and    *)
(* config_valid keep exactly the valid ones).  Generations count modulo    *)
(* 2 * HalfRange, 2^32 in the code.                                        *)
(***************************************************************************)
EXTENDS Integers

CONSTANTS
  Values,    \* the valid configurations
  Default,   \* config_defaults
  HalfRange  \* 2 ^ 31: half the range of sequence

ASSUME StoreAssumption ==
  /\ Default \in Values
  /\ HalfRange \in Nat /\ HalfRange >= 2

Slots == {0, 1}
NoSlot == -1
SeqMod == 2 * HalfRange
Seqs == 0 .. SeqMod - 1

\* What settings_media_read finds in a file.  A missing or empty file reads
\* as blank.  torn: our header, but the CRC does not match; partial: the
\* record without its marker; foreign: not our header, or another version.
\* A file that is too long cannot be read.
Record(kind, seq, val) == [kind |-> kind, seq |-> seq, val |-> val]
Opaque(kind) == Record(kind, 0, Default)
Contents ==
  {Opaque(k) : k \in {"blank", "torn", "foreign", "oversized"}}
    \cup [kind : {"partial", "full"}, seq : Seqs, val : Values]

VARIABLES
  files,   \* the two files of the card
  ram,     \* store, the running configuration
  pc,      \* off, idle, or the next step of settings_save
  next,    \* settings_save: the store read back from the card
  req,     \* settings_save: value
  result,  \* what the last settings_save returned
  may      \* the values a restart may load: the last value saved, and those
           \* of the saves attempted and not completed since

storeVars == <<files, ram, pc, next, req, result, may>>

Stores == [val : Values, seq : Seqs, slot : Slots \cup {NoSlot}, saved : BOOLEAN, writable : BOOLEAN]
SavePcs == {"truncate", "write", "verify", "mark", "verify_all"}

\* settings_init without a card.
NoCard == [val |-> Default, seq |-> 0, slot |-> NoSlot, saved |-> FALSE, writable |-> FALSE]
-----------------------------------------------------------------------------
\* sequence + 1, which wraps.
Succ(a) == IF a = SeqMod - 1 THEN 0 ELSE a + 1

Newer_unsigned(a, b) == a > b

\* (int32_t)(a - b) > 0
Newer(a, b) ==
  LET distance == IF a >= b THEN a - b ELSE a - b + SeqMod
  IN distance \in 1 .. HalfRange - 1

Valid(card, unread, s) == s \notin unread /\ card[s].kind = "full"

\* The slot config_load ends with: slot 1 replaces slot 0 when it is newer.
Winner(card, unread) ==
  IF Valid(card, unread, 1)
     /\ (Valid(card, unread, 0) => Newer(card[1].seq, card[0].seq))
  THEN 1
  ELSE IF Valid(card, unread, 0) THEN 0 ELSE NoSlot

\* Saving is refused if a file cannot be read or is not ours.
Writable(card, unread) ==
  unread = {} /\ \A s \in Slots : card[s].kind \notin {"foreign", "oversized"}

\* config_load, where the files in unread fail to read.
Load(card, unread) ==
  LET w == Winner(card, unread)
  IN [val |-> IF w = NoSlot THEN Default ELSE card[w].val,
      seq |-> IF w = NoSlot THEN 0 ELSE card[w].seq,
      slot |-> w, saved |-> w # NoSlot, writable |-> Writable(card, unread)]

\* What a restart with a readable card runs with.
BootValue == Load(files, {}).val

\* A card this firmware has written, or a card from elsewhere: if both files
\* hold a record, one is the successor of the other.
Adjacent(a, b) == Succ(a) = b \/ Succ(b) = a
Consistent(card) ==
  card[0].kind = "full" /\ card[1].kind = "full" => Adjacent(card[0].seq, card[1].seq)
Cards == {c \in [Slots -> Contents] : Consistent(c)}

StoreTypeOK ==
  /\ files \in [Slots -> Contents]
  /\ ram \in Stores /\ next \in Stores
  /\ pc \in {"off", "idle"} \cup SavePcs
  /\ req \in Values
  /\ result \in {"none", "ok", "failed"}
  /\ may \subseteq Values

StoreInit ==
  /\ files \in Cards
  /\ ram = NoCard /\ next = NoCard
  /\ pc = "off"
  /\ req = Default
  /\ result = "none"
  /\ may = {BootValue}
-----------------------------------------------------------------------------
\* settings_init: with a card, some of whose files may fail to read, or none.
Boot ==
  /\ pc = "off"
  /\ \/ \E unread \in SUBSET Slots : ram' = Load(files, unread)
     \/ ram' = NoCard
  /\ pc' = "idle"
  /\ UNCHANGED <<files, next, req, result, may>>

\* settings_save returns.
Finish(ok) ==
  /\ pc' = "idle"
  /\ result' = IF ok THEN "ok" ELSE "failed"
  /\ req' = Default /\ next' = NoCard

\* settings_save: no card, or a card config_save may not write.
SaveRefused ==
  /\ pc = "idle"
  /\ Finish(FALSE)
  /\ UNCHANGED <<files, ram, may>>

\* config_save: the card already holds this value.
SaveUnchanged(v) ==
  LET s == Load(files, {})
  IN /\ pc = "idle"
     /\ s.writable /\ s.saved /\ s.val = v
     /\ ram' = s
     /\ may' = {v}
     /\ Finish(TRUE)
     /\ UNCHANGED files

\* config_save begins to write.  The card is read anew on every save, and a
\* file that cannot be read makes the card not writable.
SaveBegin(v) ==
  LET s == Load(files, {})
  IN /\ pc = "idle"
     /\ s.writable /\ ~(s.saved /\ s.val = v)
     /\ next' = s
     /\ req' = v
     /\ may' = may \cup {v}
     /\ pc' = "truncate"
     /\ UNCHANGED <<files, ram, result>>

Target == IF next.slot = 0 THEN 1 ELSE 0

NextSeq == Succ(next.seq)

\* One step that changes the file: it succeeds, or it fails and leaves the
\* file as it was, as it should be, or in one of the states in between.
WriteStep(from, to, new, between) ==
  /\ pc = from
  /\ \/ /\ files' = [files EXCEPT ![Target] = new]
        /\ pc' = to
        /\ UNCHANGED <<next, req, result>>
     \/ /\ \E left \in {files[Target], new} \cup between :
             files' = [files EXCEPT ![Target] = left]
        /\ Finish(FALSE)
  /\ UNCHANGED <<ram, may>>

TruncateFile == WriteStep("truncate", "write", Opaque("blank"), {})
\* A file cut short within its header, or whose size is written before its
\* data, is not recognised as ours.
WriteBody == WriteStep("write", "verify", Record("partial", NextSeq, req), {Opaque("torn"), Opaque("foreign")})
WriteMark == WriteStep("mark", "verify_all", Record("full", NextSeq, req), {Opaque("torn")})

\* The two read-backs, which may fail.
VerifyBody ==
  /\ pc = "verify"
  /\ \/ /\ files[Target] = Record("partial", NextSeq, req)
        /\ pc' = "mark"
        /\ UNCHANGED <<next, req, result>>
     \/ Finish(FALSE)
  /\ UNCHANGED <<files, ram, may>>

VerifyAll ==
  /\ pc = "verify_all"
  /\ \/ /\ files[Target] = Record("full", NextSeq, req)
        /\ ram' = [val |-> req, seq |-> NextSeq, slot |-> Target, saved |-> TRUE,
                    writable |-> next.writable]
        /\ may' = {req}
        /\ Finish(TRUE)
     \/ /\ Finish(FALSE)
        /\ UNCHANGED <<ram, may>>
  /\ UNCHANGED files

\* Power is lost or the firmware restarted.
PowerOff ==
  /\ pc # "off"
  /\ pc' = "off"
  /\ ram' = NoCard /\ next' = NoCard
  /\ req' = Default /\ result' = "none"
  /\ UNCHANGED <<files, may>>

\* Another card is put in between two operations.
ReplaceCard(card) ==
  /\ pc \in {"off", "idle"}
  /\ files' = card
  /\ may' = {Load(card, {}).val}
  /\ result' = "none"
  /\ UNCHANGED <<ram, pc, next, req>>

StoreNext ==
  \/ Boot \/ PowerOff \/ SaveRefused
  \/ \E v \in Values : SaveUnchanged(v) \/ SaveBegin(v)
  \/ TruncateFile \/ WriteBody \/ VerifyBody \/ WriteMark \/ VerifyAll
  \/ \E card \in Cards : ReplaceCard(card)

StoreSpec == StoreInit /\ [][StoreNext]_storeVars
-----------------------------------------------------------------------------
\* However a save ends - completed, failed at any step, or cut off by a loss
\* of power - a restart loads the last value saved or one whose save was
\* attempted since; after a completed save, exactly the one now running.
CrashSafe ==
  /\ BootValue \in may
  /\ pc = "idle" /\ result = "ok" => BootValue = ram.val

\* Two committed records are always consecutive generations, also when the
\* counter wraps: the signed difference of config_load never meets any other
\* distance.
AdjacentGenerations == Consistent(files)

\* A file that is not ours, or cannot be read, is never replaced: config_save
\* does not start on a card that holds one.
ForeignKept ==
  pc \in SavePcs => \A s \in Slots : files[s].kind \notin {"foreign", "oversized"}

\* settings_save in progress: the record it started from is intact, and the
\* other file is at the stage of config_save that pc names.
SaveInProgress ==
  /\ next.val \in may /\ req \in may
  /\ next.slot \in Slots => files[next.slot] = Record("full", next.seq, next.val)
  /\ next.slot = NoSlot => files[1].kind # "full" /\ next.val = Default
  /\ pc = "truncate" => next = Load(files, {})
  /\ pc = "write" => files[Target].kind = "blank"
  /\ pc \in {"verify", "mark"} => files[Target] = Record("partial", NextSeq, req)
  /\ pc = "verify_all" => files[Target] = Record("full", NextSeq, req)

\* A card survives whatever happens to it: a restart finds an intact and
\* intended configuration, generations never come apart, foreign files are
\* left alone.  What a restart loads depends on both files, so the invariant
\* says at every step of config_save where both of them are.
StoreInv ==
  /\ StoreTypeOK
  /\ CrashSafe
  /\ AdjacentGenerations
  /\ ForeignKept
  /\ pc = "off" => result = "none"
  /\ pc \in SavePcs => SaveInProgress
=============================================================================
