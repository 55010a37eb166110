----------------------------- MODULE HttpServer -----------------------------
(***************************************************************************)
(* The management web server (web_task.c): one task accepts connections    *)
(* and queues them, workers serve them one at a time.  settings_lock       *)
(* serialises authentication with read, modify and save of the settings    *)
(* and with the single-owner USB/FAT stack; mac_table_lock serialises      *)
(* MacDump's reader.  Requests and pages are reduced to what they read and *)
(* write; the storage itself is in ConfigStore.                            *)
(***************************************************************************)
EXTENDS Naturals, Sequences, FiniteSets

CONSTANTS
    Workers, Clients, None,
    Mixes,       \* requests that occur together: subsets of AllKinds
    QueueDepth,  \* HTTP_QUEUE_DEPTH (8)
    Values       \* the values of each settings field

AllKinds == {"page", "mac", "getconfig", "postports", "postconfig", "postother", "bad"}
Fields == {"ports", "stp", "cred"}

ASSUME HttpAssumption ==
    /\ Mixes \subseteq SUBSET AllKinds /\ QueueDepth \in Nat \ {0}
    /\ None \notin Workers \union Clients
    /\ \A f \in Fields : Values[f] # {}

VARIABLES
    mix,         \* a member of Mixes
    store,       \* settings.c store.value, as fields
    queue,       \* clients
    worker,      \* each worker's place and locals
    settings_lock, mac_lock,   \* owner or None
    place        \* ghost: where the connection of each client is

vars == <<mix, store, queue, worker, settings_lock, mac_lock, place>>

Configs == {c \in [Fields -> UNION {Values[f] : f \in Fields}] : \A f \in Fields : c[f] \in Values[f]}
Blank == [f \in Fields |-> CHOOSE v \in Values[f] : TRUE]
Free == [pc |-> "idle", sock |-> None, kind |-> "bad", auth |-> Blank["cred"],
         set |-> {}, val |-> Blank, cfg |-> Blank, ok |-> FALSE]

\* The fields a request supplies: POST /api/ports the ports, POST /api/config
\* the ports and the addresses (here one field with them), and spanning tree
\* and credentials only if given.
Supplied(kind) ==
    CASE kind = "postports" -> {{"ports"}}
      [] kind = "postconfig" -> {{"ports"} \union o : o \in SUBSET {"stp", "cred"}}
      [] OTHER -> {{}}
Posts(kind) == kind \in {"postports", "postconfig", "postother"}

NeedsLock(kind) == Posts(kind) \/ kind = "getconfig"

Init ==
    /\ mix \in Mixes
    /\ store = Blank
    /\ queue = <<>> /\ worker = [w \in Workers |-> Free]
    /\ settings_lock = None /\ mac_lock = None
    /\ place = [c \in Clients |-> "closed"]

(***************************************************************************)
(* web_task.                                                               *)
(***************************************************************************)

Accept(c) ==
    /\ place[c] = "closed"
    /\ IF Len(queue) < QueueDepth
       THEN queue' = Append(queue, c) /\ place' = [place EXCEPT ![c] = "queued"]
       ELSE place' = [place EXCEPT ![c] = "closed"] /\ UNCHANGED queue
    /\ UNCHANGED <<mix, store, worker, settings_lock, mac_lock>>

(***************************************************************************)
(* worker and serve.                                                       *)
(***************************************************************************)
At(w, pc) == worker[w].pc = pc
Locals(w, l) == worker' = [worker EXCEPT ![w] = l]
Goto(w, pc) == Locals(w, [worker[w] EXCEPT !.pc = pc])
Finish(w) == Locals(w, [Free EXCEPT !.pc = "respond", !.sock = worker[w].sock])
Rest == <<mix, store, queue, settings_lock, mac_lock, place>>

\* A connection that waited two seconds is closed unserved.
Take(w) ==
    /\ At(w, "idle") /\ queue # <<>>
    /\ queue' = Tail(queue) /\ place' = [place EXCEPT ![Head(queue)] = "served"]
    /\ \E pc \in {"receive", "close"} : Locals(w, [Free EXCEPT !.pc = pc, !.sock = Head(queue)])
    /\ UNCHANGED <<mix, store, settings_lock, mac_lock>>

\* recv until web_parse has a request, or two seconds, or an error.
Receive(w) ==
    /\ At(w, "receive")
    /\ \E k \in mix : \E set \in Supplied(k) :
       \E val \in {v \in Configs : \A f \in Fields \ set : v[f] = Blank[f]} :
       \E auth \in IF Posts(k) THEN Values["cred"] ELSE {Blank["cred"]} :
           Locals(w, [worker[w] EXCEPT
                !.pc = IF k = "bad" THEN "respond" ELSE IF NeedsLock(k) THEN "lock" ELSE "serve",
                !.kind = k, !.set = set, !.val = val, !.auth = auth])
    /\ UNCHANGED Rest

Lock(w) ==
    /\ At(w, "lock") /\ settings_lock = None
    /\ settings_lock' = w
    /\ Goto(w, IF Posts(worker[w].kind) THEN "auth" ELSE "serve")
    /\ UNCHANGED <<mix, store, queue, mac_lock, place>>

\* 503 after two seconds.
LockTimeout(w) ==
    /\ At(w, "lock") /\ settings_lock # None
    /\ Finish(w) /\ UNCHANGED Rest

\* A copy of the settings, then the slow comparison with it.
AuthCopy(w) ==
    /\ At(w, "auth") /\ Locals(w, [worker[w] EXCEPT !.pc = "verify", !.cfg = store])
    /\ UNCHANGED Rest

\* Mutant: a failed authentication keeps the lock.
AuthVerify_keep(w) ==
    /\ At(w, "verify")
    /\ IF worker[w].cfg["cred"] = worker[w].auth
       THEN Goto(w, "serve") /\ UNCHANGED settings_lock
       ELSE Finish(w) /\ UNCHANGED settings_lock
    /\ UNCHANGED <<mix, store, queue, mac_lock, place>>

\* Mutant: the outcome of the comparison is ignored.
AuthVerify_ignore(w) ==
    /\ At(w, "verify") /\ Goto(w, "serve")
    /\ UNCHANGED Rest

\* The penalty delay after a failure is taken with the lock given back.
AuthVerify(w) ==
    /\ At(w, "verify")
    /\ IF worker[w].cfg["cred"] = worker[w].auth
       THEN Goto(w, "serve") /\ UNCHANGED settings_lock
       ELSE Finish(w) /\ settings_lock' = (IF settings_lock = w THEN None ELSE settings_lock)
    /\ UNCHANGED <<mix, store, queue, mac_lock, place>>

ServePage(w) == At(w, "serve") /\ worker[w].kind \in {"page", "postother"} /\ Goto(w, "unlock") /\ UNCHANGED Rest

MacTake(w) ==
    /\ At(w, "serve") /\ worker[w].kind = "mac"
    /\ IF mac_lock = None THEN mac_lock' = w /\ Goto(w, "table") ELSE UNCHANGED mac_lock /\ Goto(w, "unlock")
    /\ UNCHANGED <<mix, store, queue, settings_lock, place>>
MacGive(w) ==
    /\ At(w, "table") /\ mac_lock' = None /\ Goto(w, "unlock")
    /\ UNCHANGED <<mix, store, queue, settings_lock, place>>

\* Mutant: a posted configuration is saved as it was sent.
Merged_sent(w) ==
    IF worker[w].kind = "postconfig" THEN worker[w].val
    ELSE [f \in Fields |-> IF f \in worker[w].set THEN worker[w].val[f] ELSE worker[w].cfg[f]]

\* The settings to save: those supplied, the others as read before.
Merged(w) == [f \in Fields |-> IF f \in worker[w].set THEN worker[w].val[f] ELSE worker[w].cfg[f]]

\* settings_get; the answer about the configuration says whether it could
\* be saved, which probes the medium before the settings are copied.
ServeRead(w) ==
    /\ At(w, "serve")
    /\ \/ worker[w].kind = "postports" /\ Locals(w, [worker[w] EXCEPT !.cfg = store, !.pc = "save"])
       \/ worker[w].kind \in {"getconfig", "postconfig"} /\ Goto(w, "probe")
    /\ UNCHANGED Rest
Probed(w) ==
    /\ At(w, "probe")
    /\ Locals(w, [worker[w] EXCEPT !.cfg = store,
                    !.pc = IF worker[w].kind = "postconfig" THEN "save" ELSE "unlock"])
    /\ UNCHANGED Rest

\* settings_save: the medium first, then store and ports; either may fail.
AfterSave(w) == IF worker[w].kind = "postconfig" THEN "reread" ELSE "unlock"
SaveFails(w) == At(w, "save") /\ Goto(w, AfterSave(w)) /\ UNCHANGED Rest
Save(w) ==
    /\ At(w, "save") /\ store' = Merged(w)
    /\ \E ok \in BOOLEAN : Locals(w, [worker[w] EXCEPT !.ok = ok, !.val = Merged(w), !.pc = AfterSave(w)])
    /\ UNCHANGED <<mix, queue, settings_lock, mac_lock, place>>

Reread(w) ==
    /\ At(w, "reread") /\ Locals(w, [worker[w] EXCEPT !.cfg = store, !.pc = "unlock"])
    /\ UNCHANGED Rest

Unlock(w) ==
    /\ At(w, "unlock")
    /\ settings_lock' = (IF settings_lock = w THEN None ELSE settings_lock) /\ Finish(w)
    /\ UNCHANGED <<mix, store, queue, mac_lock, place>>

\* Mutant: the peer's end of the connection is awaited without a deadline.
Respond_wait(w) ==
    /\ At(w, "respond")
    /\ \E pc \in {"close", "drain"} : Locals(w, [Free EXCEPT !.pc = pc, !.sock = worker[w].sock])
    /\ UNCHANGED Rest

\* Sending, shutdown and draining are bounded by five and two seconds.
Respond(w) ==
    /\ At(w, "respond") /\ Locals(w, [Free EXCEPT !.pc = "close", !.sock = worker[w].sock])
    /\ UNCHANGED Rest
Close(w) ==
    /\ At(w, "close")
    /\ place' = [place EXCEPT ![worker[w].sock] = "closed"] /\ Locals(w, Free)
    /\ UNCHANGED <<mix, store, queue, settings_lock, mac_lock>>

Work(w) ==
    \/ Take(w) \/ Receive(w) \/ Lock(w) \/ LockTimeout(w) \/ AuthCopy(w) \/ AuthVerify(w) \/ ServePage(w)
    \/ MacTake(w) \/ MacGive(w) \/ ServeRead(w) \/ Probed(w) \/ SaveFails(w) \/ Save(w) \/ Reread(w)
    \/ Unlock(w) \/ Respond(w) \/ Close(w)

Next == (\E c \in Clients : Accept(c)) \/ (\E w \in Workers : Work(w))
Spec == Init /\ [][Next]_vars

\* Tasks of one priority are time-sliced and every wait of a worker is
\* bounded, that for the lock by its timeout.
FairSpec == Spec /\ \A w \in Workers : WF_vars(Work(w))

(***************************************************************************)
(* Properties.                                                             *)
(***************************************************************************)
Places == {"idle", "receive", "lock", "auth", "verify", "serve", "table", "probe", "save",
           "reread", "unlock", "respond", "close"}

\* Every variable has its type.
TypeOK ==
    /\ mix \in Mixes
    /\ store \in Configs /\ queue \in Seq(Clients) /\ Len(queue) <= QueueDepth
    /\ worker \in [Workers -> [pc : Places, sock : Clients \union {None}, kind : AllKinds,
                              auth : Values["cred"], set : SUBSET Fields, val : Configs,
                              cfg : Configs, ok : BOOLEAN]]
    /\ {settings_lock, mac_lock} \subseteq Workers \union {None}
    /\ place \in [Clients -> {"queued", "served", "closed"}]

\* Every accepted connection has exactly one owner, the queue or a worker,
\* until it is closed, and none after.
OneOwner ==
    \A c \in Clients :
        /\ place[c] = "served" <=> \E w \in Workers : worker[w].sock = c
        /\ place[c] = "queued" <=> \E n \in DOMAIN queue : queue[n] = c
        /\ \A v, w \in Workers : worker[v].sock = c /\ worker[w].sock = c => v = w
        /\ \A m, n \in DOMAIN queue : queue[m] = c /\ queue[n] = c => m = n

\* The USB/FAT stack has a single owner: at most one worker probes, reads or
\* writes the medium.
UsbSingleOwner ==
    \A v, w \in Workers : {worker[v].pc, worker[w].pc} \subseteq {"probe", "save", "reread"} => v = w

\* The part of a request that reads or changes the settings.
Guarded(w) ==
    \/ worker[w].pc \in {"auth", "verify", "probe", "save", "reread"}
    \/ worker[w].pc \in {"serve", "unlock"} /\ NeedsLock(worker[w].kind)

\* Each lock is held over exactly the part of a request it protects: no path
\* through serve leaves it taken, and none enters that part without it.
LocksExact ==
    \A w \in Workers :
        (settings_lock = w <=> Guarded(w)) /\ (mac_lock = w <=> worker[w].pc = "table")

\* Copies are current where they are used: the one the credentials are
\* compared with, the one a save starts from and the credentials that
\* authorised it are those of the store, whatever other workers did.
CopiesCurrent ==
    \A w \in Workers :
        /\ worker[w].pc \in {"verify", "save"} => worker[w].cfg = store
        /\ worker[w].pc \in {"serve", "probe", "save"} /\ Posts(worker[w].kind)
             => worker[w].auth = store["cred"]

Saves(w) == worker[w].pc = "save" /\ worker'[w].pc \in {"reread", "unlock"} /\ store' # store

\* No update is lost: a save leaves the fields its request did not supply as
\* they are at that moment, whatever other workers saved meanwhile.
SaveKeepsOthers ==
    [][\A w \in Workers : Saves(w) => \A f \in Fields \ worker[w].set : store'[f] = store[f]]_vars

\* A save is authorised by the credentials in force when it is stored, not
\* by ones that another request has replaced since the comparison.
AuthorisedByCurrent ==
    [][\A w \in Workers : Saves(w) => worker[w].auth = store["cred"]]_vars

\* A POST that changes the configuration answers with what it saved.
ReadsOwnSave ==
    \A w \in Workers :
        worker[w].pc = "unlock" /\ worker[w].kind = "postconfig" /\ worker[w].ok => worker[w].cfg = worker[w].val

\* What the steps of a request leave for the later ones: which requests get
\* where, whose connection it is, and that only a save sets ok and val.
RequestState ==
    \A w \in Workers :
        LET l == worker[w] IN
        /\ l.pc = "idle" <=> l.sock = None
        /\ l.pc = "lock" => NeedsLock(l.kind)
        /\ l.pc \in {"auth", "verify"} => Posts(l.kind)
        /\ l.pc = "probe" => l.kind \in {"getconfig", "postconfig"}
        /\ l.pc = "save" => l.kind \in {"postports", "postconfig"}
        /\ l.pc = "reread" => l.kind = "postconfig" /\ (l.ok => l.val = store)
        /\ l.pc = "table" => l.kind = "mac"
        /\ l.pc \in {"receive", "lock", "auth", "verify", "serve", "probe", "save"} => ~l.ok

\* Every accepted connection is closed.
ClientsClosed == \A c \in Clients : place[c] # "closed" ~> place[c] = "closed"

\* Sockets, locks and the medium have one owner each on every path through a
\* request, and what a request uses of the settings is current.
ServerInv ==
    TypeOK /\ OneOwner /\ UsbSingleOwner /\ LocksExact /\ CopiesCurrent /\ ReadsOwnSave /\ RequestState
=============================================================================
