--------------------------- MODULE ServiceProofs ----------------------------
(***************************************************************************)
(* Web server and address discovery.  Each keeps its invariant and its     *)
(* action properties, for every value of its constants.                    *)
(***************************************************************************)
EXTENDS HttpServer, IpDiscovery, WellFoundedInduction, FiniteSetTheorems, TLAPS

(***************************************************************************)
(* The web server.  ServerInv is inductive: the locks are held exactly     *)
(* where the settings are used (LocksExact), so no other worker changes    *)
(* the store between the copy a worker takes of it and its use.            *)
(***************************************************************************)

LocalType ==
    [pc : Places, sock : Clients \union {None}, kind : AllKinds, auth : Values["cred"],
     set : SUBSET Fields, val : Configs, cfg : Configs, ok : BOOLEAN]

\* The steps of a worker between taking a connection and closing it.
Inside(w) ==
    \/ Receive(w) \/ Lock(w) \/ LockTimeout(w) \/ AuthCopy(w) \/ AuthVerify(w) \/ ServePage(w)
    \/ MacTake(w) \/ MacGive(w) \/ ServeRead(w) \/ Probed(w) \/ SaveFails(w) \/ Save(w) \/ Reread(w)
    \/ Unlock(w) \/ Respond(w)

PerWorker == LocksExact /\ CopiesCurrent /\ ReadsOwnSave /\ RequestState

\* The settings a worker starts with are a configuration.
LEMMA BlankConfig == Blank \in Configs
<1>1. \A f \in Fields : Blank[f] \in Values[f]
  BY Zenon, HttpAssumption DEF Blank
<1> QED  BY Zenon, <1>1 DEF Configs, Blank

\* The fields of a configuration have their values.
LEMMA ConfigFields == ASSUME NEW c \in Configs, NEW f \in Fields PROVE c[f] \in Values[f]
BY Zenon DEF Configs

\* An idle worker's locals have their types.
LEMMA FreeTyped == Free \in LocalType
<1>1. Blank["cred"] \in Values["cred"]
  BY Zenon, BlankConfig, ConfigFields DEF Fields
<1> QED  BY Zenon, <1>1, BlankConfig DEF Free, LocalType, Places, AllKinds

\* What a save writes is a configuration.
LEMMA MergedConfig ==
  ASSUME NEW w \in Workers, worker[w].val \in Configs, worker[w].cfg \in Configs
  PROVE  Merged(w) \in Configs
<1>1. \A f \in Fields : Merged(w)[f] \in Values[f]
  BY Zenon, ConfigFields DEF Merged
<1>2. Merged(w) = [f \in Fields |-> Merged(w)[f]]
  BY Zenon DEF Merged
<1> QED  BY Zenon, <1>1, <1>2 DEF Configs

\* Who holds the lock is alone with the medium.
LEMMA LockGivesUsb == ASSUME LocksExact PROVE UsbSingleOwner
BY Zenon DEF LocksExact, UsbSingleOwner, Guarded

\* The same of the next state.
LEMMA LockGivesUsbNext == ASSUME LocksExact' PROVE UsbSingleOwner'
BY Zenon DEF LocksExact, UsbSingleOwner, Guarded

\* A step that changes nothing keeps the invariant.
LEMMA Stuttering == ASSUME ServerInv, UNCHANGED vars PROVE ServerInv'
BY DEF ServerInv, vars, TypeOK, OneOwner, UsbSingleOwner, LocksExact, CopiesCurrent, ReadsOwnSave,
   RequestState, Guarded

\* A step that moves no connection leaves every one with its owner.
LEMMA OwnersKept ==
  ASSUME OneOwner, UNCHANGED <<queue, place>>,
         \A v \in Workers : worker'[v].sock = worker[v].sock
  PROVE  OneOwner'
BY DEF OneOwner

\* A worker's step that replaces its locals by typed ones keeps the types.
LEMMA LocalsTyped ==
  ASSUME TypeOK, NEW w \in Workers, NEW l \in LocalType, Locals(w, l)
  PROVE  worker' \in [Workers -> LocalType]
BY Zenon DEF TypeOK, Locals, LocalType

\* The invariant's typing as the lemmas use it.
LEMMA WorkerTyped == ASSUME TypeOK, NEW w \in Workers PROVE worker[w] \in LocalType
BY Zenon DEF TypeOK, LocalType

\* A step inside a request keeps the types and moves no connection.
LEMMA InsideTyped ==
  ASSUME TypeOK, NEW w \in Workers, Inside(w)
  PROVE  TypeOK' /\ UNCHANGED <<queue, place>> /\ \A v \in Workers : worker'[v].sock = worker[v].sock
<1>w. worker[w] \in LocalType
  BY Zenon, WorkerTyped
<1>1. CASE Receive(w)
  <2>1. PICK k \in mix : \E set \in Supplied(k) :
           \E val \in {v \in Configs : \A f \in Fields \ set : v[f] = Blank[f]} :
           \E auth \in IF Posts(k) THEN Values["cred"] ELSE {Blank["cred"]} :
               Locals(w, [worker[w] EXCEPT
                 !.pc = IF k = "bad" THEN "respond" ELSE IF NeedsLock(k) THEN "lock" ELSE "serve",
                 !.kind = k, !.set = set, !.val = val, !.auth = auth])
    BY Zenon, <1>1 DEF Receive
  <2> DEFINE pc == IF k = "bad" THEN "respond" ELSE IF NeedsLock(k) THEN "lock" ELSE "serve"
  <2>2. PICK set \in Supplied(k), val \in Configs,
             auth \in IF Posts(k) THEN Values["cred"] ELSE {Blank["cred"]} :
           Locals(w, [worker[w] EXCEPT !.pc = pc, !.kind = k, !.set = set, !.val = val, !.auth = auth])
    BY Zenon, <2>1
  <2>4. auth \in Values["cred"]
    BY Zenon, <2>2, BlankConfig, ConfigFields DEF Fields
  <2>5. pc \in Places
    BY Zenon DEF Places
  <2> HIDE DEF pc
  <2>3. k \in AllKinds /\ set \subseteq Fields
    BY HttpAssumption DEF TypeOK, Supplied, Fields
  <2> QED  BY ZenonT(30), <1>1, <1>w, <2>2, <2>3, <2>4, <2>5 DEF Receive, Rest, Locals, LocalType, TypeOK
<1>2. CASE Lock(w)
  BY ZenonT(30), <1>2, <1>w, FreeTyped
     DEF Lock, At, Locals, Goto, Posts, Free, LocalType, TypeOK, Places
<1>3. CASE LockTimeout(w)
  BY Zenon, <1>3, <1>w, FreeTyped
     DEF LockTimeout, At, Locals, Finish, Rest, Free, LocalType, TypeOK, Places
<1>4. CASE AuthCopy(w)
  BY Zenon, <1>4, <1>w, FreeTyped
     DEF AuthCopy, At, Locals, Rest, Free, LocalType, TypeOK, Places
<1>5. CASE AuthVerify(w)
  <2>1. CASE worker[w].cfg["cred"] = worker[w].auth
    <3>1. [worker[w] EXCEPT !.pc = "serve"] \in LocalType
      BY Zenon, <1>w DEF LocalType, Places
    <3>2. /\ Locals(w, [worker[w] EXCEPT !.pc = "serve"])
          /\ UNCHANGED <<settings_lock, mix, store, queue, mac_lock, place>>
      BY Zenon, <1>5, <2>1 DEF AuthVerify, Goto
    <3>3. \A v \in Workers : worker'[v].sock = worker[v].sock
      BY Zenon, <3>1, <3>2, <1>w DEF Locals, TypeOK, LocalType
    <3>4. worker' \in [Workers -> LocalType]
      BY Zenon, <3>1, <3>2, LocalsTyped
    <3>5. TypeOK'
      BY Zenon, <3>2, <3>4 DEF TypeOK, LocalType
    <3> QED  BY Zenon, <3>2, <3>3, <3>5
  <2>2. CASE worker[w].cfg["cred"] # worker[w].auth
    <3>1. [Free EXCEPT !.pc = "respond", !.sock = worker[w].sock] \in LocalType
      BY Zenon, <1>w, FreeTyped DEF LocalType, Places
    <3>2. /\ Locals(w, [Free EXCEPT !.pc = "respond", !.sock = worker[w].sock])
          /\ settings_lock' \in {None, settings_lock} /\ UNCHANGED <<mix, store, queue, mac_lock, place>>
      BY Zenon, <1>5, <2>2 DEF AuthVerify, Finish
    <3>3. \A v \in Workers : worker'[v].sock = worker[v].sock
      BY Zenon, <3>1, <3>2 DEF Locals, TypeOK, LocalType
    <3>4. worker' \in [Workers -> LocalType]
      BY Zenon, <3>1, <3>2, LocalsTyped
    <3>5. TypeOK'
      BY Zenon, <3>2, <3>4 DEF TypeOK, LocalType
    <3> QED  BY Zenon, <3>2, <3>3, <3>5
  <2> QED  BY Zenon, <2>1, <2>2
<1>6. CASE ServePage(w)
  BY Zenon, <1>6, <1>w, FreeTyped
     DEF ServePage, At, Locals, Goto, Rest, Free, LocalType, TypeOK, Places
<1>7. CASE MacTake(w)
  BY SMTT(30), <1>7, <1>w, FreeTyped
     DEF MacTake, At, Locals, Goto, Free, LocalType, TypeOK, Places
<1>8. CASE MacGive(w)
  BY <1>8, <1>w, FreeTyped
     DEF MacGive, At, Locals, Goto, Free, LocalType, TypeOK, Places
<1>9. CASE ServeRead(w)
  <2>1. CASE Goto(w, "probe")
    BY Zenon, <1>9, <1>w, <2>1 DEF ServeRead, Goto, Rest, Locals, LocalType, TypeOK, Places
  <2>2. CASE Locals(w, [worker[w] EXCEPT !.cfg = store, !.pc = "save"])
    BY Zenon, <1>9, <1>w, <2>2 DEF ServeRead, Rest, Locals, LocalType, TypeOK, Places
  <2> QED  BY Zenon, <1>9, <2>1, <2>2 DEF ServeRead
<1>10. CASE Probed(w)
  BY Zenon, <1>10, <1>w, FreeTyped
     DEF Probed, At, Locals, Rest, Free, LocalType, TypeOK, Places
<1>11. CASE SaveFails(w)
  BY Zenon, <1>11, <1>w, FreeTyped
     DEF SaveFails, At, Locals, Goto, AfterSave, Rest, Free, LocalType, TypeOK, Places
<1>12. CASE Save(w)
  <2>1. PICK ok \in BOOLEAN :
           Locals(w, [worker[w] EXCEPT !.ok = ok, !.val = Merged(w), !.pc = AfterSave(w)])
    BY Zenon, <1>12 DEF Save
  <2>2. Merged(w) \in Configs /\ AfterSave(w) \in Places
    BY Zenon, <1>w, MergedConfig DEF AfterSave, LocalType, Places
  <2> QED  BY Zenon, <1>12, <1>w, <2>1, <2>2 DEF Save, Locals, LocalType, TypeOK
<1>13. CASE Reread(w)
  BY Zenon, <1>13, <1>w, FreeTyped
     DEF Reread, At, Locals, Rest, Free, LocalType, TypeOK, Places
<1>14. CASE Unlock(w)
  BY ZenonT(30), <1>14, <1>w, FreeTyped
     DEF Unlock, At, Locals, Finish, Free, LocalType, TypeOK, Places
<1>15. CASE Respond(w)
  BY ZenonT(30), <1>15, <1>w, FreeTyped
     DEF Respond, At, Locals, Rest, Free, LocalType, TypeOK, Places
<1> QED  BY ZenonT(30), <1>1, <1>2, <1>3, <1>4, <1>5, <1>6, <1>7, <1>8, <1>9, <1>10, <1>11, <1>12,
            <1>13, <1>14, <1>15 DEF Inside

\* A step inside a request keeps what is said of every worker.
LEMMA InsideKeeps ==
  ASSUME ServerInv, NEW w \in Workers, Inside(w)
  PROVE  PerWorker'
<1> USE DEF PerWorker, LocksExact, CopiesCurrent, ReadsOwnSave, RequestState, Guarded, NeedsLock, Posts,
        At, Locals, Free, LocalType
<1>w. \A v \in Workers : worker[v] \in LocalType
  BY Zenon, WorkerTyped DEF ServerInv
<1>t. worker \in [Workers -> LocalType] /\ None \notin Workers
  BY Zenon, HttpAssumption DEF ServerInv, TypeOK
<1>1. CASE Receive(w)
  <2>1. PICK k \in mix : \E set \in Supplied(k) :
           \E val \in {v \in Configs : \A f \in Fields \ set : v[f] = Blank[f]} :
           \E auth \in IF Posts(k) THEN Values["cred"] ELSE {Blank["cred"]} :
               Locals(w, [worker[w] EXCEPT
                 !.pc = IF k = "bad" THEN "respond" ELSE IF NeedsLock(k) THEN "lock" ELSE "serve",
                 !.kind = k, !.set = set, !.val = val, !.auth = auth])
    BY Zenon, <1>1 DEF Receive
  <2>2. \E set, val, auth, pc :
           /\ Locals(w, [worker[w] EXCEPT !.pc = pc, !.kind = k, !.set = set, !.val = val, !.auth = auth])
           /\ pc \in {"respond", "lock", "serve"}
           /\ (pc = "lock" => NeedsLock(k)) /\ (pc = "serve" => ~NeedsLock(k))
    <3> DEFINE where == IF k = "bad" THEN "respond" ELSE IF NeedsLock(k) THEN "lock" ELSE "serve"
    <3>1. /\ where \in {"respond", "lock", "serve"}
          /\ (where = "lock" => NeedsLock(k)) /\ (where = "serve" => ~NeedsLock(k))
      BY Zenon
    <3> HIDE DEF NeedsLock, Posts, Locals
    <3> QED  BY ZenonT(30), <2>1, <3>1
  <2>3. /\ worker'[w].pc \in {"respond", "lock", "serve"}
        /\ worker'[w].sock = worker[w].sock /\ worker'[w].ok = worker[w].ok
        /\ worker'[w].pc = "lock" => NeedsLock(worker'[w].kind)
        /\ worker'[w].pc = "serve" => ~NeedsLock(worker'[w].kind)
        /\ \A v \in Workers \ {w} : worker'[v] = worker[v]
    BY <1>w, <1>t, <2>2
  <2>4. ~worker[w].ok /\ worker[w].sock # None /\ settings_lock # w /\ mac_lock # w
    BY Zenon, <1>1 DEF Receive, ServerInv
  <2>5. UNCHANGED <<store, settings_lock, mac_lock>>
    BY Zenon, <1>1 DEF Receive, Rest
  <2> QED  BY <2>3, <2>4, <2>5 DEF ServerInv
<1>2. CASE Lock(w)
  <2>1. worker[w].kind \in AllKinds /\ ~worker[w].ok /\ worker[w].sock # None /\ mac_lock # w
    BY Zenon, <1>2, <1>w DEF Lock, ServerInv
  <2>2. NeedsLock(worker[w].kind)
    BY Zenon, <1>2 DEF Lock, ServerInv
  <2>3. CASE Posts(worker[w].kind)
    BY <1>2, <1>w, <1>t, <2>1, <2>3 DEF Lock, Goto, ServerInv
  <2>4. CASE ~Posts(worker[w].kind)
    BY <1>2, <1>w, <1>t, <2>1, <2>2, <2>4 DEF Lock, Goto, ServerInv
  <2> QED  BY Zenon, <2>3, <2>4
<1>3. CASE LockTimeout(w)
  BY <1>3, <1>w, <1>t DEF LockTimeout, Finish, Rest, ServerInv
<1>4. CASE AuthCopy(w)
  BY <1>4, <1>w, <1>t DEF AuthCopy, Rest, ServerInv
<1>5. CASE AuthVerify(w)
  <2>1. settings_lock = w /\ mac_lock # w
    BY Zenon, <1>5 DEF AuthVerify, ServerInv
  <2>2. CASE worker[w].cfg["cred"] = worker[w].auth
    <3>1. /\ worker'[w] = [worker[w] EXCEPT !.pc = "serve"]
          /\ \A v \in Workers \ {w} : worker'[v] = worker[v]
          /\ UNCHANGED <<store, settings_lock, mac_lock>>
      BY Zenon, <1>5, <1>t, <2>2 DEF AuthVerify, Goto
    <3>2. worker[w].auth = store["cred"] /\ ~worker[w].ok /\ worker[w].sock # None /\ Posts(worker[w].kind)
      BY Zenon, <1>5, <2>2 DEF AuthVerify, ServerInv
    <3> QED  BY <1>w, <2>1, <3>1, <3>2 DEF ServerInv
  <2>3. CASE worker[w].cfg["cred"] # worker[w].auth
    <3>1. /\ worker'[w].pc = "respond" /\ worker'[w].sock = worker[w].sock /\ ~worker'[w].ok
          /\ \A v \in Workers \ {w} : worker'[v] = worker[v]
          /\ settings_lock' = None /\ UNCHANGED <<store, mac_lock>>
      <4>1. /\ worker' = [worker EXCEPT ![w] = [Free EXCEPT !.pc = "respond", !.sock = worker[w].sock]]
            /\ settings_lock' = None /\ UNCHANGED <<store, mac_lock>>
        BY Zenon, <1>5, <2>1, <2>3 DEF AuthVerify, Finish
      <4> QED  BY Zenon, <1>t, <4>1
    <3>2. worker[w].sock # None
      BY Zenon, <1>5 DEF AuthVerify, ServerInv
    <3> QED  BY <1>t, <2>1, <3>1, <3>2 DEF ServerInv
  <2> QED  BY Zenon, <2>2, <2>3
<1>6. CASE ServePage(w)
  BY <1>6, <1>w, <1>t DEF ServePage, Goto, Rest, ServerInv
<1>7. CASE MacTake(w)
  BY <1>7, <1>w, <1>t DEF MacTake, Goto, ServerInv
<1>8. CASE MacGive(w)
  BY <1>8, <1>w, <1>t DEF MacGive, Goto, ServerInv
<1>9. CASE ServeRead(w)
  <2>1. CASE Goto(w, "probe") /\ worker[w].kind \in {"getconfig", "postconfig"}
    BY <1>9, <1>w, <1>t, <2>1 DEF ServeRead, Goto, Rest, ServerInv
  <2>2. CASE Locals(w, [worker[w] EXCEPT !.cfg = store, !.pc = "save"]) /\ worker[w].kind = "postports"
    BY <1>9, <1>w, <1>t, <2>2 DEF ServeRead, Rest, ServerInv
  <2> QED  BY Zenon, <1>9, <2>1, <2>2 DEF ServeRead
<1>10. CASE Probed(w)
  BY <1>10, <1>w, <1>t DEF Probed, Rest, ServerInv
<1>11. CASE SaveFails(w)
  BY <1>11, <1>w, <1>t DEF SaveFails, Goto, AfterSave, Rest, ServerInv
<1>12. CASE Save(w)
  BY <1>12, <1>w, <1>t DEF Save, AfterSave, ServerInv
<1>13. CASE Reread(w)
  BY <1>13, <1>w, <1>t DEF Reread, Rest, ServerInv
<1>14. CASE Unlock(w)
  BY <1>14, <1>w, <1>t DEF Unlock, Finish, ServerInv
<1>15. CASE Respond(w)
  BY <1>15, <1>w, <1>t DEF Respond, Rest, ServerInv
<1> QED  BY Zenon, <1>1, <1>2, <1>3, <1>4, <1>5, <1>6, <1>7, <1>8, <1>9, <1>10, <1>11, <1>12,
            <1>13, <1>14, <1>15 DEF Inside

\* A connection is queued if there is room, and refused otherwise.
LEMMA AcceptKeeps == ASSUME ServerInv, NEW c \in Clients, Accept(c) PROVE ServerInv'
<1>t. TypeOK /\ OneOwner
  BY Zenon DEF ServerInv
<1>1. CASE Len(queue) < QueueDepth
  <2>1. queue' = Append(queue, c) /\ place' = [place EXCEPT ![c] = "queued"] /\ place[c] = "closed"
    BY Zenon, <1>1 DEF Accept
  <2>2. /\ queue' \in Seq(Clients) /\ Len(queue') = Len(queue) + 1 /\ queue'[Len(queue) + 1] = c
        /\ \A n \in DOMAIN queue : n \in DOMAIN queue' /\ queue'[n] = queue[n]
        /\ \A n \in DOMAIN queue' : n \in DOMAIN queue \/ n = Len(queue) + 1
    BY <1>t, <2>1 DEF TypeOK
  <2>3. TypeOK'
    BY <1>1, <1>t, <2>1, <2>2, HttpAssumption DEF Accept, TypeOK
  <2>4. OneOwner'
    <3> SUFFICES ASSUME NEW d \in Clients
                 PROVE  /\ place'[d] = "served" <=> \E w \in Workers : worker[w].sock = d
                        /\ place'[d] = "queued" <=> \E n \in DOMAIN queue' : queue'[n] = d
                        /\ \A v, w \in Workers : worker[v].sock = d /\ worker[w].sock = d => v = w
                        /\ \A m, n \in DOMAIN queue' : queue'[m] = d /\ queue'[n] = d => m = n
      BY DEF OneOwner, Accept
    <3>1. Len(queue) + 1 \in DOMAIN queue'
      BY <1>t, <2>2 DEF TypeOK
    <3>2. CASE d = c
      BY <1>t, <2>1, <2>2, <3>1, <3>2 DEF OneOwner, TypeOK
    <3>3. CASE d # c
      BY <1>t, <2>1, <2>2, <3>1, <3>3 DEF OneOwner, TypeOK
    <3> QED  BY Zenon, <3>2, <3>3
  <2> QED  BY <2>3, <2>4 DEF Accept, ServerInv, UsbSingleOwner, LocksExact, CopiesCurrent,
              ReadsOwnSave,
                RequestState, Guarded
<1>2. CASE ~(Len(queue) < QueueDepth)
  <2>1. UNCHANGED vars
    BY Zenon, <1>2, <1>t DEF Accept, TypeOK, vars
  <2> QED  BY Zenon, <2>1, Stuttering
<1> QED  BY Zenon, <1>1, <1>2

\* The connection at the head of the queue passes to the worker.
LEMMA TakeKeeps == ASSUME ServerInv, NEW w \in Workers, Take(w) PROVE ServerInv'
<1>t. TypeOK /\ OneOwner /\ None \notin Workers /\ None \notin Clients
  BY Zenon, HttpAssumption DEF ServerInv
<1> DEFINE c == Head(queue)
<1>1. PICK pc \in {"receive", "close"} : Locals(w, [Free EXCEPT !.pc = pc, !.sock = c])
  BY Zenon DEF Take
<1>2. /\ c \in Clients /\ queue' \in Seq(Clients) /\ Len(queue') = Len(queue) - 1
      /\ 1 \in DOMAIN queue /\ queue[1] = c
      /\ \A n \in DOMAIN queue' : n + 1 \in DOMAIN queue /\ queue'[n] = queue[n + 1] /\ n \in Nat \ {0}
      /\ \A n \in DOMAIN queue : n = 1 \/ (n - 1 \in DOMAIN queue' /\ queue'[n - 1] = queue[n])
  BY <1>t DEF Take, TypeOK
<1>3. [Free EXCEPT !.pc = pc, !.sock = c] \in LocalType
  BY Zenon, <1>1, <1>2, FreeTyped DEF LocalType, Places
<1>4. worker' \in [Workers -> LocalType]
  BY Zenon, <1>1, <1>3, <1>t, LocalsTyped
<1>5. /\ worker'[w].pc \in {"receive", "close"} /\ worker'[w].sock = c /\ ~worker'[w].ok
      /\ \A v \in Workers \ {w} : worker'[v] = worker[v]
      /\ worker[w].pc = "idle" /\ worker[w].sock = None
  BY Zenon, <1>1, <1>t, WorkerTyped DEF Locals, Free, LocalType, TypeOK, Take, At, ServerInv,
     RequestState
<1>6. place' = [place EXCEPT ![c] = "served"] /\ UNCHANGED <<mix, store, settings_lock, mac_lock>>
  BY Zenon DEF Take
<1>7. TypeOK'
  BY <1>2, <1>4, <1>6, <1>t, HttpAssumption DEF TypeOK, LocalType
<1>8. OneOwner'
  <2> SUFFICES ASSUME NEW d \in Clients
               PROVE  /\ place'[d] = "served" <=> \E v \in Workers : worker'[v].sock = d
                      /\ place'[d] = "queued" <=> \E n \in DOMAIN queue' : queue'[n] = d
                      /\ \A u, v \in Workers : worker'[u].sock = d /\ worker'[v].sock = d => u = v
                      /\ \A m, n \in DOMAIN queue' : queue'[m] = d /\ queue'[n] = d => m = n
    BY Zenon DEF OneOwner
  <2>0. place[c] = "queued" /\ \A n \in DOMAIN queue : queue[n] = c => n = 1
    BY <1>t, <1>2 DEF OneOwner
  <2>1. CASE d = c
    <3>1. \A v \in Workers : worker[v].sock # c
      BY Zenon, <1>t, <1>2, <2>0 DEF OneOwner
    <3>2. \A n \in DOMAIN queue' : queue'[n] # c
      BY <1>2, <2>0
    <3>3. place'[c] = "served"
      BY Zenon, <1>2, <1>6, <1>t DEF TypeOK
    <3> QED  BY ZenonT(30), <1>5, <2>1, <3>1, <3>2, <3>3
  <2>2. CASE d # c
    <3>1. place'[d] = place[d]
      BY Zenon, <1>6, <1>t, <2>2 DEF TypeOK
    <3>2. \A v \in Workers : worker'[v].sock = d <=> worker[v].sock = d
      BY Zenon, <1>5, <1>t, <2>2
    <3>3. (\E n \in DOMAIN queue : queue[n] = d) <=> \E n \in DOMAIN queue' : queue'[n] = d
      BY <1>2, <2>2
    <3>4. \A m, n \in DOMAIN queue' : queue'[m] = d /\ queue'[n] = d => m = n
      BY <1>2, <1>t DEF OneOwner
    <3> QED  BY <1>t, <3>1, <3>2, <3>3, <3>4 DEF OneOwner
  <2> QED  BY Zenon, <2>1, <2>2
<1>9. PerWorker'
  <2>1. settings_lock # w /\ mac_lock # w
    BY Zenon, <1>5 DEF ServerInv, LocksExact, Guarded
  <2>2. worker'[w].pc \in {"receive", "close"} /\ worker'[w].sock # None /\ ~worker'[w].ok
    BY Zenon, <1>2, <1>5, <1>t
  <2>3. (\A v \in Workers \ {w} : worker'[v] = worker[v]) /\ UNCHANGED <<store, settings_lock, mac_lock>>
    BY Zenon, <1>5, <1>6
  <2> QED  BY <2>1, <2>2, <2>3 DEF ServerInv, PerWorker, LocksExact, CopiesCurrent, ReadsOwnSave,
              RequestState,
     Guarded
<1> QED  BY Zenon, <1>7, <1>8, <1>9, LockGivesUsbNext DEF ServerInv, PerWorker

\* The worker closes the connection and is idle again.
LEMMA CloseKeeps == ASSUME ServerInv, NEW w \in Workers, Close(w) PROVE ServerInv'
<1>t. TypeOK /\ OneOwner /\ None \notin Workers /\ None \notin Clients
  BY Zenon, HttpAssumption DEF ServerInv
<1> DEFINE c == worker[w].sock
<1>1. c \in Clients
  BY Zenon, <1>t, WorkerTyped DEF LocalType, Close, At, ServerInv, RequestState
<1>2. worker' \in [Workers -> LocalType]
  BY Zenon, <1>t, FreeTyped, LocalsTyped DEF Close
<1>3. /\ worker'[w].pc = "idle" /\ worker'[w].sock = None
      /\ \A v \in Workers \ {w} : worker'[v] = worker[v]
  BY Zenon, <1>t DEF Close, Locals, Free, TypeOK
<1>4. place' = [place EXCEPT ![c] = "closed"] /\ UNCHANGED <<mix, store, queue, settings_lock, mac_lock>>
  BY Zenon DEF Close
<1>5. TypeOK'
  BY Zenon, <1>2, <1>4, <1>t DEF TypeOK, LocalType
<1>6. OneOwner'
  BY SMTT(30), <1>1, <1>3, <1>4, <1>t DEF OneOwner, TypeOK
<1>7. PerWorker'
  BY <1>3, <1>4, <1>t DEF ServerInv, PerWorker, LocksExact, CopiesCurrent, ReadsOwnSave,
     RequestState,
     Guarded, Close, At
<1> QED  BY Zenon, <1>5, <1>6, <1>7, LockGivesUsbNext DEF ServerInv, PerWorker

\* Initially every worker is idle and no connection is open.
LEMMA ServerInit == Init => ServerInv
<1> SUFFICES ASSUME Init PROVE ServerInv
  BY Zenon
<1>t. None \notin Workers /\ None \notin Clients
  BY Zenon, HttpAssumption
<1>1. TypeOK
  BY FreeTyped, BlankConfig, HttpAssumption DEF Init, TypeOK, LocalType
<1>2. OneOwner
  BY <1>t DEF Init, OneOwner, Free
<1>3. PerWorker
  BY Zenon, <1>t DEF Init, PerWorker, LocksExact, CopiesCurrent, ReadsOwnSave, RequestState,
     Guarded, Free
<1> QED  BY Zenon, <1>1, <1>2, <1>3, LockGivesUsb DEF ServerInv, PerWorker

\* Every step keeps the invariant.
LEMMA ServerStep == ServerInv /\ [Next]_vars => ServerInv'
<1> SUFFICES ASSUME ServerInv, [Next]_vars PROVE ServerInv'
  BY Zenon
<1>1. CASE UNCHANGED vars
  BY Zenon, <1>1, Stuttering
<1>2. ASSUME NEW c \in Clients, Accept(c) PROVE ServerInv'
  BY Zenon, <1>2, AcceptKeeps
<1>3. ASSUME NEW w \in Workers, Work(w) PROVE ServerInv'
  <2>1. CASE Take(w)
    BY Zenon, <2>1, TakeKeeps
  <2>2. CASE Close(w)
    BY Zenon, <2>2, CloseKeeps
  <2>3. CASE Inside(w)
    <3>1. TypeOK' /\ OneOwner'
      BY Zenon, <2>3, InsideTyped, OwnersKept DEF ServerInv
    <3>2. PerWorker'
      BY Zenon, <2>3, InsideKeeps
    <3> QED  BY Zenon, <3>1, <3>2, LockGivesUsbNext DEF ServerInv, PerWorker
  <2> QED  BY ZenonT(30), <1>3, <2>1, <2>2, <2>3 DEF Work, Inside
<1> QED  BY Zenon, <1>1, <1>2, <1>3 DEF Next

\* Whatever requests come and however their steps interleave, every
\* connection has one owner, each lock is held over exactly the part of
\* serve it protects, the medium has one user, and the settings a worker
\* works with are those of the store (web_task.c, serve and worker).
THEOREM ServerCorrect == Spec => []ServerInv
BY ServerInit, ServerStep, PTL DEF Spec

\* A worker that leaves "save" with a changed store has performed Save.
LEMMA SavesIsSave ==
  ASSUME ServerInv, [Next]_vars, NEW w \in Workers, Saves(w)
  PROVE  Save(w)
<1>t. worker \in [Workers -> LocalType]
  BY Zenon DEF ServerInv, TypeOK, LocalType
<1>1. store' # store /\ worker'[w] # worker[w]
  BY Zenon DEF Saves
<1>2. PICK v \in Workers : Work(v)
  BY Zenon, <1>1 DEF Next, Accept, vars
<1>3. Save(v)
  BY Zenon, <1>1, <1>2 DEF Work, Take, Receive, Lock, LockTimeout, AuthCopy, AuthVerify, ServePage,
     MacTake, MacGive,
     ServeRead, Probed, SaveFails, Reread, Unlock, Respond, Close, Rest
<1>4. v = w
  BY Zenon, <1>1, <1>3, <1>t DEF Save, Locals
<1> QED  BY Zenon, <1>3, <1>4

\* No update is lost: settings_save merges the request into a copy that is
\* still the store's, for any number of workers.
THEOREM NoLostUpdate == Spec => SaveKeepsOthers
<1>1. ASSUME ServerInv, [Next]_vars
      PROVE  \A w \in Workers : Saves(w) => \A f \in Fields \ worker[w].set : store'[f] = store[f]
  <2> SUFFICES ASSUME NEW w \in Workers, Saves(w), NEW f \in Fields \ worker[w].set
               PROVE  store'[f] = store[f]
    BY Zenon
  <2>1. Save(w)
    BY Zenon, <1>1, SavesIsSave
  <2>2. worker[w].cfg = store
    BY Zenon, <1>1, <2>1 DEF Save, At, ServerInv, CopiesCurrent
  <2> QED  BY Zenon, <2>1, <2>2 DEF Save, Merged
<1> QED  BY <1>1, ServerCorrect, PTL DEF Spec, SaveKeepsOthers

\* A save is stored under the credentials that authorised it.
THEOREM SavesAuthorised == Spec => AuthorisedByCurrent
<1>1. ASSUME ServerInv, [Next]_vars
      PROVE  \A w \in Workers : Saves(w) => worker[w].auth = store["cred"]
  <2> SUFFICES ASSUME NEW w \in Workers, Saves(w)
               PROVE  worker[w].auth = store["cred"]
    BY Zenon
  <2>1. Save(w)
    BY Zenon, <1>1, SavesIsSave
  <2> QED  BY Zenon, <1>1, <2>1 DEF Save, At, ServerInv, CopiesCurrent, RequestState, Posts
<1> QED  BY <1>1, ServerCorrect, PTL DEF Spec, AuthorisedByCurrent

(***************************************************************************)
(* Address discovery.  A slot that is overwritten is the oldest one among  *)
(* those that stand in the way, and a lookup remembers what was in force   *)
(* when it read the clock.                                                 *)
(***************************************************************************)

\* A nonempty set of numbers has a least one, and Min is it.
LEMMA LeastOf == ASSUME NEW S \in SUBSET Nat, S # {} PROVE Min(S) \in S /\ \A y \in S : Min(S) <= y
<1> DEFINE R == OpToRel(<, Nat)
<1>0. IsWellFoundedOn(R, Nat)
  BY Zenon, NatLessThanWellFounded
<1>1. \A x, y \in Nat : y < x => <<y, x>> \in R
  BY Zenon DEF OpToRel
<1> HIDE DEF R
<1>2. PICK m \in S : \A k \in S : ~(<<k, m>> \in R)
  BY Zenon, <1>0, WFMin
<1>3. \A y \in S : m <= y
  <2>1. \A y \in S : ~(y < m)
    BY Zenon, <1>1, <1>2
  <2> QED  BY <2>1
<1> QED  BY Zenon, <1>3 DEF Min

\* A nonempty set of bounded numbers has a greatest one, and Max is it.
LEMMA GreatestOf ==
  ASSUME NEW b \in Nat, NEW S \in SUBSET (0..b), S # {} PROVE Max(S) \in S /\ \A y \in S : y <= Max(S)
<1> DEFINE T == {b - x : x \in S}
<1>1. T \in SUBSET Nat /\ T # {}
  <2>1. \A x \in S : b - x \in Nat
    OBVIOUS
  <2>2. PICK x \in S : TRUE
    BY Zenon
  <2> QED  BY Zenon, <2>1, <2>2
<1>2. Min(T) \in T /\ \A y \in T : Min(T) <= y
  BY Zenon, <1>1, LeastOf
<1>3. PICK x \in S : Min(T) = b - x
  BY Zenon, <1>2
<1>4. \A y \in S : b - x <= b - y
  BY Zenon, <1>2, <1>3
<1>5. \A y \in S : y <= x
  BY <1>4
<1> HIDE DEF T
<1>6. \A y \in S : x >= y
  BY Zenon, <1>5
<1>7. Max(S) \in S /\ \A y \in S : Max(S) >= y
  BY Zenon, <1>6 DEF Max
<1> QED  BY Zenon, <1>7

\* A finite set has at most one element exactly if any two are equal.
LEMMA AtMostOne == ASSUME NEW S, IsFiniteSet(S) PROVE Cardinality(S) <= 1 <=> \A x, y \in S : x = y
<1>1. ASSUME Cardinality(S) <= 1, NEW x \in S, NEW y \in S, x # y PROVE FALSE
  <2>1. IsFiniteSet({x}) /\ Cardinality({x}) = 1
    BY Zenon, FS_Singleton
  <2>2. Cardinality({x} \union {y}) = 2
    BY <1>1, <2>1, FS_AddElement
  <2>3. ({x} \union {y}) \in SUBSET S
    BY Zenon, <1>1
  <2>4. Cardinality({x} \union {y}) <= Cardinality(S) /\ Cardinality(S) \in Nat
    BY Zenon, <2>3, FS_Subset, FS_CardinalityType
  <2> QED  BY <1>1, <2>2, <2>4
<1>2. ASSUME \A x, y \in S : x = y PROVE Cardinality(S) <= 1
  <2>1. CASE S = {}
    BY <2>1, FS_EmptySet
  <2>2. CASE S # {}
    <3>1. PICK x : S = {x}
      BY <1>2, <2>2
    <3>2. Cardinality(S) = 1
      BY Zenon, <3>1, FS_Singleton
    <3> QED  BY <3>2
  <2> QED  BY Zenon, <2>1, <2>2
<1> QED  BY Zenon, <1>1, <1>2

\* What a slot of the table holds.
Kept == [mac : Macs, ip : Ips, age : 0..Oldest, valid : BOOLEAN]

\* The states of a lookup.
Lookups == [mac : Macs \union {Nobody}, skew : 0..Delay, had : SUBSET [ip : Ips, age : 0..Oldest], seen : SUBSET Ips]

\* The numbers of the model.
LEMMA DiscNumbers ==
  ASSUME DiscoveryAssumption
  PROVE  /\ Capacity \in Nat \ {0} /\ PerMac \in Nat \ {0} /\ Ttl \in Nat \ {0} /\ Delay \in Nat /\ Oldest \in Nat
         /\ Ttl <= Oldest /\ IsFiniteSet(Slots) /\ Slots \in SUBSET Nat /\ Cardinality(Slots) = Capacity
<1>1. /\ Capacity \in Nat \ {0} /\ PerMac \in Nat \ {0} /\ Ttl \in Nat \ {0} /\ Delay \in Nat
  BY Zenon DEF DiscoveryAssumption
<1>2. Oldest \in Nat /\ Ttl <= Oldest
  BY <1>1 DEF Oldest
<1>3. IsFiniteSet(1..Capacity) /\ Cardinality(1..Capacity) = Capacity
  BY <1>1, FS_Interval
<1>4. (1..Capacity) \in SUBSET Nat
  BY <1>1
<1> QED  BY Zenon, <1>1, <1>2, <1>3, <1>4 DEF Slots

\* An empty slot is a slot.
LEMMA EmptyKept == ASSUME DiscoveryAssumption PROVE Empty \in Kept /\ ~Empty.valid
<1>1. Oldest \in 0..Oldest
  BY DiscNumbers
<1>2. (CHOOSE m \in Macs : TRUE) \in Macs /\ (CHOOSE i \in Ips : TRUE) \in Ips
  BY Zenon DEF DiscoveryAssumption
<1> QED  BY Zenon, <1>1, <1>2 DEF Empty, Kept

\* A table of kept entries, whatever its slots hold.
Tables == [Slots -> Kept]

\* The type invariant by variable.
LEMMA TypesOf == ASSUME DiscoveryTypeOK PROVE entries \in Tables /\ reader \in Lookups
BY Zenon DEF DiscoveryTypeOK, Tables, Kept, Lookups

\* Expiry keeps an entry or empties its slot.
LEMMA TableKept ==
  ASSUME DiscoveryAssumption, DiscoveryTypeOK
  PROVE  /\ Table \in Tables
         /\ \A s \in Slots : Table[s].valid => Table[s] = entries[s] /\ entries[s].valid /\ entries[s].age < Ttl
         /\ \A s \in Slots : entries[s].valid /\ entries[s].age < Ttl => Table[s] = entries[s]
<1>1. \A s \in Slots : entries[s] \in Kept
  BY Zenon, TypesOf DEF Tables
<1>2. \A e \in Kept : Expired(e) \in Kept /\ (Expired(e).valid => Expired(e) = e /\ e.valid /\ e.age < Ttl)
                      /\ (e.valid /\ e.age < Ttl => Expired(e) = e)
  BY Zenon, EmptyKept DEF Expired
<1> QED  BY Zenon, <1>1, <1>2 DEF Table, Tables

\* The first of the oldest entries among some slots is one of these slots.
LEMMA FirstIsOldest ==
  ASSUME DiscoveryAssumption, NEW t \in Tables, NEW slots \in SUBSET Slots, slots # {}
  PROVE  First(t, slots) \in slots /\ \A r \in slots : t[r].age <= t[First(t, slots)].age
<1> DEFINE Ages == {t[s].age : s \in slots}
           S == {s \in slots : \A r \in slots : t[r].age <= t[s].age}
<1>1. \A s \in slots : t[s].age \in 0..Oldest
  BY Zenon DEF Tables, Kept
<1>2. Ages \in SUBSET (0..Oldest) /\ Ages # {} /\ Oldest \in Nat
  BY Zenon, <1>1, DiscNumbers
<1>3. Max(Ages) \in Ages /\ \A y \in Ages : y <= Max(Ages)
  BY Zenon, <1>2, GreatestOf
<1>4. PICK s \in slots : t[s].age = Max(Ages)
  BY Zenon, <1>3
<1>5. \A r \in slots : t[r].age <= t[s].age
  BY Zenon, <1>3, <1>4
<1>6. S # {} /\ S \in SUBSET Nat
  BY Zenon, <1>5, DiscNumbers
<1>7. Min(S) \in S
  BY Zenon, <1>6, LeastOf
<1> QED  BY Zenon, <1>7 DEF First

\* Sets of slots can be counted.
LEMMA SubsetsFinite ==
  ASSUME DiscoveryAssumption, NEW S \in SUBSET Slots
  PROVE  IsFiniteSet(S) /\ Cardinality(S) \in Nat
BY Zenon, DiscNumbers, FS_Subset, FS_CardinalityType

\* The slot an observation writes: a slot, the one that holds the address if one does, and one of the MAC's own if
\* the MAC is at its limit and the address is new.
LEMMA TargetSlot ==
  ASSUME DiscoveryAssumption, NEW t \in Tables, NEW m \in Macs, NEW i \in Ips
  PROVE  /\ Target(t, m, i) \in Slots
         /\ Holding(t, i) # {} => Target(t, m, i) = Min(Holding(t, i)) /\ Target(t, m, i) \in Holding(t, i)
         /\ Cardinality(Same(t, m)) >= PerMac => Same(t, m) # {} /\ First(t, Same(t, m)) \in Same(t, m)
         /\ Holding(t, i) = {} /\ Cardinality(Same(t, m)) >= PerMac => Target(t, m, i) = First(t, Same(t, m))
<1>1. Holding(t, i) \in SUBSET Slots /\ Same(t, m) \in SUBSET Slots /\ Slots \in SUBSET Nat /\ Slots # {}
  <2>1. 1 \in Slots
    BY DEF Slots, DiscoveryAssumption
  <2> QED  BY Zenon, <2>1, DiscNumbers DEF Holding, Same
<1>2. Holding(t, i) # {} => Min(Holding(t, i)) \in Holding(t, i)
  BY Zenon, <1>1, LeastOf
<1>3. Cardinality(Same(t, m)) >= PerMac => Same(t, m) # {}
  BY FS_EmptySet DEF DiscoveryAssumption
<1>4. Cardinality(Same(t, m)) >= PerMac => First(t, Same(t, m)) \in Same(t, m)
  BY Zenon, <1>1, <1>3, FirstIsOldest
<1>5. First(t, Slots) \in Slots
  BY Zenon, <1>1, FirstIsOldest
<1>6. ASSUME NEW free \in SUBSET Slots, free # {} PROVE Max(free) \in free
  <2>1. free \in SUBSET (0..Capacity) /\ Capacity \in Nat
    BY DEF Slots, DiscoveryAssumption
  <2> QED  BY Zenon, <1>6, <2>1, GreatestOf
<1>7. Slot(t, m) \in Slots
  <2> DEFINE free == {s \in Slots : ~t[s].valid}
  <2>1. free \in SUBSET Slots
    BY Zenon
  <2>2. free # {} => Max(free) \in Slots
    BY Zenon, <2>1, <1>6
  <2> QED  BY Zenon, <2>2, <1>1, <1>4, <1>5 DEF Slot
<1> QED  BY Zenon, <1>1, <1>2, <1>3, <1>4, <1>7 DEF Target, Slot

\* Making room empties at most one slot, one of the MAC's own.
LEMMA MovedKept ==
  ASSUME DiscoveryAssumption, NEW t \in Tables, NEW m \in Macs, NEW i \in Ips
  PROVE  /\ Moved(t, m, i) \in Tables
         /\ \A s \in Slots : Moved(t, m, i)[s] = t[s] \/ (s = First(t, Same(t, m)) /\ Moved(t, m, i)[s] = Empty)
         /\ \A s \in Slots : Moved(t, m, i)[s].valid => Moved(t, m, i)[s] = t[s]
<1>1. CASE Moved(t, m, i) = t
  BY Zenon, <1>1
<1>2. CASE Moved(t, m, i) = [t EXCEPT ![First(t, Same(t, m))] = Empty]
  BY Zenon, <1>2, EmptyKept DEF Tables
<1> QED  BY Zenon, <1>1, <1>2 DEF Moved

\* The mapping an observation writes.
Observed(m, i) == [mac |-> m, ip |-> i, age |-> 0, valid |-> TRUE]

\* After an observation every valid entry but the new one was valid before, unexpired, and is as it was.
LEMMA ObserveKept ==
  ASSUME DiscoveryAssumption, DiscoveryTypeOK, NEW m \in Macs, NEW i \in Ips, ip_discovery_observe(m, i)
  PROVE  /\ entries' \in Tables /\ entries'[Target(Table, m, i)] = Observed(m, i)
         /\ \A s \in Slots \ {Target(Table, m, i)} :
               /\ entries'[s] = Moved(Table, m, i)[s]
               /\ entries'[s].valid => entries'[s] = Table[s] /\ entries'[s] = entries[s] /\ Table[s].valid
<1> DEFINE T == Target(Table, m, i)
           M == Moved(Table, m, i)
<1>1. entries' = [M EXCEPT ![T] = Observed(m, i)]
  BY Zenon DEF ip_discovery_observe, Observed
<1>2. Table \in Tables /\ T \in Slots /\ M \in Tables /\ \A s \in Slots : M[s].valid => M[s] = Table[s]
  BY Zenon, TableKept, TargetSlot, MovedKept
<1>3. Observed(m, i) \in Kept
  <2>1. 0 \in 0..Oldest
    BY DiscNumbers
  <2> QED  BY Zenon, <2>1 DEF Observed, Kept
<1> HIDE DEF T, M
<1>4. /\ entries' \in Tables /\ entries'[T] = Observed(m, i) /\ \A s \in Slots \ {T} : entries'[s] = M[s]
  BY Zenon, <1>1, <1>2, <1>3 DEF Tables
<1>5. ASSUME NEW s \in Slots \ {T}, entries'[s].valid
      PROVE  entries'[s] = Table[s] /\ entries'[s] = entries[s] /\ Table[s].valid
  BY Zenon, <1>2, <1>4, <1>5, TableKept
<1> QED  BY Zenon, <1>4, <1>5 DEF T, M

\* An address is in one slot.
Unique(t) == \A s, r \in Slots : t[s].valid /\ t[r].valid /\ t[s].ip = t[r].ip => s = r

\* OneOwnerPerAddress without counting.
LEMMA UniqueSays ==
  ASSUME DiscoveryAssumption, NEW t \in Tables
  PROVE  Unique(t) <=> \A i \in Ips : Cardinality(Holding(t, i)) <= 1
<1>1. ASSUME NEW i \in Ips PROVE Cardinality(Holding(t, i)) <= 1 <=> \A s, r \in Holding(t, i) : s = r
  <2>1. Holding(t, i) \in SUBSET Slots
    BY Zenon DEF Holding
  <2>2. IsFiniteSet(Holding(t, i))
    BY Zenon, <2>1, SubsetsFinite
  <2> QED  BY Zenon, <2>2, AtMostOne
<1>2. \A s \in Slots : t[s].ip \in Ips
  BY Zenon DEF Tables, Kept
<1>3. ASSUME Unique(t), NEW i \in Ips PROVE Cardinality(Holding(t, i)) <= 1
  <2>1. \A s, r \in Holding(t, i) : s = r
    BY Zenon, <1>3 DEF Unique, Holding
  <2> QED  BY Zenon, <1>1, <2>1
<1>4. ASSUME \A i \in Ips : Cardinality(Holding(t, i)) <= 1,
             NEW s \in Slots, NEW r \in Slots, t[s].valid, t[r].valid, t[s].ip = t[r].ip
      PROVE  s = r
  <2>1. s \in Holding(t, t[s].ip) /\ r \in Holding(t, t[s].ip)
    BY Zenon, <1>4 DEF Holding
  <2> QED  BY Zenon, <2>1, <1>1, <1>2, <1>4
<1> QED  BY Zenon, <1>3, <1>4 DEF Unique

\* An observation leaves no address with two owners.
LEMMA ObserveOneOwner ==
  ASSUME DiscoveryAssumption, DiscoveryTypeOK, Unique(entries), NEW m \in Macs, NEW i \in Ips, ip_discovery_observe(m, i)
  PROVE  Unique(entries')
<1> DEFINE T == Target(Table, m, i)
<1>1. \A s \in Slots \ {T} : entries'[s].valid => entries'[s] = Table[s] /\ entries'[s] = entries[s] /\ Table[s].valid
  BY Zenon, ObserveKept
<1>2. entries'[T].ip = i
  <2>1. entries'[T] = Observed(m, i)
    BY Zenon, ObserveKept
  <2> QED  BY <2>1 DEF Observed
<1>3. \A s \in Slots : Table[s].valid => Table[s] = entries[s] /\ entries[s].valid
  BY Zenon, TableKept
<1>4. Holding(Table, i) # {} => T \in Holding(Table, i)
  BY Zenon, TableKept, TargetSlot
<1> HIDE DEF T
<1>5. ASSUME NEW s \in Slots \ {T}, entries'[s].valid, entries'[s].ip = i PROVE FALSE
  <2>1. s \in Holding(Table, i)
    BY Zenon, <1>1, <1>5 DEF Holding
  <2>2. T \in Holding(Table, i)
    BY Zenon, <2>1, <1>4
  <2>3. T = s
    BY Zenon, <2>1, <2>2, <1>3 DEF Holding, Unique
  <2> QED  BY Zenon, <2>3
<1>6. ASSUME NEW s \in Slots \ {T}, NEW r \in Slots \ {T}, entries'[s].valid, entries'[r].valid, entries'[s].ip = entries'[r].ip
      PROVE  s = r
  BY Zenon, <1>6, <1>1, <1>3 DEF Unique
<1> QED  BY Zenon, <1>2, <1>5, <1>6 DEF Unique

\* Fewer slots count less.
LEMMA FewerSlots ==
  ASSUME DiscoveryAssumption, NEW S \in SUBSET Slots, NEW R \in SUBSET S
  PROVE  Cardinality(R) <= Cardinality(S) /\ Cardinality(R) \in Nat /\ Cardinality(S) \in Nat
<1>1. IsFiniteSet(S) /\ R \in SUBSET Slots
  BY Zenon, SubsetsFinite
<1> QED  BY Zenon, <1>1, FS_Subset, SubsetsFinite

\* Expiry leaves every MAC within its share.
LEMMA TableShare ==
  ASSUME DiscoveryAssumption, DiscoveryTypeOK, ShareKept, NEW m \in Macs
  PROVE  Cardinality(Same(Table, m)) <= PerMac /\ Same(Table, m) \in SUBSET Slots /\ Cardinality(Same(Table, m)) \in Nat
<1>1. Same(Table, m) \in SUBSET Same(entries, m) /\ Same(entries, m) \in SUBSET Slots /\ Same(Table, m) \in SUBSET Slots
  BY Zenon, TableKept DEF Same
<1>2. Cardinality(Same(Table, m)) <= Cardinality(Same(entries, m)) /\ Cardinality(Same(Table, m)) \in Nat
      /\ Cardinality(Same(entries, m)) \in Nat
  BY Zenon, <1>1, FewerSlots
<1>3. Cardinality(Same(entries, m)) <= PerMac
  BY Zenon DEF ShareKept
<1>4. PerMac \in Nat
  BY Zenon, DiscNumbers
<1> QED  BY <1>1, <1>2, <1>3, <1>4

\* An observation leaves every MAC within its share.
LEMMA ObserveShare ==
  ASSUME DiscoveryAssumption, DiscoveryTypeOK, ShareKept, NEW m \in Macs, NEW i \in Ips, ip_discovery_observe(m, i), NEW n \in Macs
  PROVE  Cardinality(Same(entries', n)) <= PerMac
<1> DEFINE T == Target(Table, m, i)
           F == First(Table, Same(Table, m))
           S == Same(Table, n)
<1>n. PerMac \in Nat \ {0}
  BY Zenon, DiscNumbers
<1>t. Table \in Tables
  BY Zenon, TableKept
<1>s. Cardinality(S) <= PerMac /\ S \in SUBSET Slots /\ Cardinality(S) \in Nat
  BY Zenon, TableShare
<1>1. \A s \in Slots \ {T} : entries'[s].valid => entries'[s] = Table[s] /\ Table[s].valid
  BY Zenon, ObserveKept
<1>2. entries'[T] = Observed(m, i) /\ entries'[T].mac = m /\ T \in Slots
  <2>1. entries'[T] = Observed(m, i)
    BY Zenon, ObserveKept
  <2>2. Observed(m, i).mac = m
    BY Zenon DEF Observed
  <2> QED  BY Zenon, <2>1, <2>2, <1>t, TargetSlot
<1>3. Same(entries', n) \subseteq S \union {T} /\ (n # m => Same(entries', n) \subseteq S)
  BY Zenon, <1>1, <1>2 DEF Same
<1>4. ASSUME Same(entries', n) \subseteq S PROVE Cardinality(Same(entries', n)) <= PerMac
  <2>1. Cardinality(Same(entries', n)) <= Cardinality(S) /\ Cardinality(Same(entries', n)) \in Nat
    BY Zenon, <1>s, <1>4, FewerSlots
  <2> QED  BY <2>1, <1>s, <1>n
<1>5. CASE n = m /\ T \notin S
  <2>1. CASE Cardinality(S) < PerMac
    <3>1. IsFiniteSet(S)
      BY Zenon, <1>s, SubsetsFinite
    <3>2. IsFiniteSet(S \union {T}) /\ Cardinality(S \union {T}) = Cardinality(S) + 1
      BY Zenon, <3>1, <1>5, FS_AddElement
    <3>3. Cardinality(Same(entries', n)) <= Cardinality(S \union {T}) /\ Cardinality(Same(entries', n)) \in Nat
      BY Zenon, <3>2, <1>3, FS_Subset, FS_CardinalityType
    <3> HIDE DEF S, T
    <3> QED  BY <2>1, <3>2, <3>3, <1>s, <1>n
  <2>2. CASE Cardinality(S) >= PerMac
    <3>1. F \in S
      BY Zenon, <1>t, <1>5, <2>2, TargetSlot
    <3>2. Holding(Table, i) # {} /\ T = Min(Holding(Table, i)) /\ T \in Holding(Table, i)
      BY Zenon, <1>t, <1>5, <2>2, <3>1, TargetSlot
    <3>3. Table[T].mac # m /\ T # F
      BY Zenon, <3>1, <3>2, <1>5 DEF Same, Holding
    <3>4. Moved(Table, m, i) = [Table EXCEPT ![F] = Empty]
      BY Zenon, <3>2, <3>3, <2>2, <1>5 DEF Moved
    <3>5. entries'[F] = Empty
      <4>1. entries'[F] = Moved(Table, m, i)[F]
        BY ZenonT(30), <3>1, <3>3, <1>s, ObserveKept
      <4>2. F \in Slots
        BY Zenon, <3>1, <1>s
      <4> QED  BY Zenon, <4>1, <4>2, <3>4, <1>t DEF Tables
    <3>6. Same(entries', n) \subseteq (S \ {F}) \union {T}
      BY Zenon, <3>5, <1>3, EmptyKept DEF Same
    <3>7. IsFiniteSet(S)
      BY Zenon, <1>s, SubsetsFinite
    <3>8. IsFiniteSet(S \ {F}) /\ Cardinality(S \ {F}) = Cardinality(S) - 1
      BY Zenon, <3>1, <3>7, FS_RemoveElement
    <3>9. IsFiniteSet((S \ {F}) \union {T}) /\ Cardinality((S \ {F}) \union {T}) = Cardinality(S \ {F}) + 1
      BY Zenon, <3>8, <1>5, FS_AddElement
    <3>10. Cardinality(Same(entries', n)) <= Cardinality((S \ {F}) \union {T}) /\ Cardinality(Same(entries', n)) \in Nat
      BY Zenon, <3>9, <3>6, FS_Subset, FS_CardinalityType
    <3> HIDE DEF S, T, F
    <3> QED  BY <3>8, <3>9, <3>10, <1>s, <1>n
  <2> HIDE DEF S
  <2> QED  BY <2>1, <2>2, <1>s, <1>n
<1>6. CASE n = m /\ T \in S
  <2>1. Same(entries', n) \subseteq S
    BY Zenon, <1>3, <1>6
  <2> QED  BY Zenon, <2>1, <1>4
<1> QED  BY Zenon, <1>3, <1>4, <1>5, <1>6

\* An observation during a lookup is one the lookup may return.
LEMMA ObserveLookup ==
  ASSUME DiscoveryAssumption, DiscoveryTypeOK, LookupKept, NEW m \in Macs, NEW i \in Ips, ip_discovery_observe(m, i)
  PROVE  LookupKept' /\ reader' \in Lookups
<1> DEFINE T == Target(Table, m, i)
<1>t. reader \in Lookups
  BY Zenon, TypesOf
<1>1. reader' \in Lookups /\ reader'.mac = reader.mac /\ reader'.skew = reader.skew /\ reader'.had = reader.had
      /\ reader.seen \subseteq reader'.seen /\ (reader.mac = m => i \in reader'.seen)
  <2>1. CASE reader.mac = m /\ reader' = [reader EXCEPT !.seen = @ \union {i}]
    <3> DEFINE all == reader.seen \union {i}
    <3>1. all \in SUBSET Ips /\ reader.seen \subseteq all /\ i \in all
      BY Zenon, <1>t DEF Lookups
    <3>2. reader' = [reader EXCEPT !.seen = all]
      BY Zenon, <2>1
    <3> HIDE DEF all
    <3> QED  BY Zenon, <1>t, <3>1, <3>2 DEF Lookups
  <2>2. CASE reader.mac # m /\ reader' = reader
    BY Zenon, <2>2, <1>t
  <2> QED  BY Zenon, <2>1, <2>2 DEF ip_discovery_observe
<1>2. \A s \in Slots \ {T} : entries'[s].valid => entries'[s] = entries[s]
  BY ZenonT(30), ObserveKept
<1>3. entries'[T].mac = m /\ entries'[T].age = 0 /\ entries'[T].ip = i
  <2>1. entries'[T] = Observed(m, i)
    BY Zenon, ObserveKept
  <2> QED  BY <2>1 DEF Observed
<1>4. 0 <= reader.skew
  BY <1>t, DiscNumbers DEF Lookups
<1> HIDE DEF T
<1>5. ASSUME NEW s \in Slots, reader'.mac # Nobody, entries'[s].valid, entries'[s].mac = reader'.mac
      PROVE  \/ entries'[s].age <= reader'.skew /\ entries'[s].ip \in reader'.seen
             \/ /\ reader'.skew <= entries'[s].age
                /\ \/ [ip |-> entries'[s].ip, age |-> entries'[s].age - reader'.skew] \in reader'.had
                   \/ Ttl <= entries'[s].age - reader'.skew
  <2>1. CASE s = T
    BY Zenon, <2>1, <1>1, <1>3, <1>4, <1>5
  <2>2. CASE s # T
    <3>1. entries'[s] = entries[s] /\ entries[s].valid /\ entries[s].mac = reader.mac /\ reader.mac # Nobody
      BY Zenon, <2>2, <1>1, <1>2, <1>5
    <3>2. \/ entries[s].age <= reader.skew /\ entries[s].ip \in reader.seen
          \/ /\ reader.skew <= entries[s].age
             /\ \/ [ip |-> entries[s].ip, age |-> entries[s].age - reader.skew] \in reader.had
                \/ Ttl <= entries[s].age - reader.skew
      BY Zenon, <3>1 DEF LookupKept
    <3> QED  BY Zenon, <3>1, <3>2, <1>1
  <2> QED  BY Zenon, <2>1, <2>2
<1> QED  BY Zenon, <1>1, <1>5 DEF LookupKept

\* One tick of an entry.
LEMMA Older ==
  ASSUME DiscoveryAssumption, NEW e \in Kept
  PROVE  /\ Min({e.age + 1, Oldest}) = (IF e.age < Oldest THEN e.age + 1 ELSE Oldest)
         /\ [e EXCEPT !.age = Min({@ + 1, Oldest})] \in Kept
         /\ [e EXCEPT !.age = Min({@ + 1, Oldest})].valid = e.valid
         /\ [e EXCEPT !.age = Min({@ + 1, Oldest})].mac = e.mac
         /\ [e EXCEPT !.age = Min({@ + 1, Oldest})].ip = e.ip
         /\ [e EXCEPT !.age = Min({@ + 1, Oldest})].age = (IF e.age < Oldest THEN e.age + 1 ELSE Oldest)
<1> DEFINE a == Min({e.age + 1, Oldest})
           S == {e.age + 1, Oldest}
<1>1. e.age \in 0..Oldest /\ Oldest \in Nat
  BY Zenon, DiscNumbers DEF Kept
<1>2. S \in SUBSET Nat /\ S # {}
  BY <1>1
<1>3. Min(S) \in S /\ \A y \in S : Min(S) <= y
  BY Zenon, <1>2, LeastOf
<1>4. (a = e.age + 1 \/ a = Oldest) /\ a <= e.age + 1 /\ a <= Oldest
  BY Zenon, <1>3
<1> HIDE DEF a
<1>5. a = (IF e.age < Oldest THEN e.age + 1 ELSE Oldest) /\ a \in 0..Oldest
  BY <1>1, <1>4
<1>6. [e EXCEPT !.age = a] \in Kept /\ [e EXCEPT !.age = a].valid = e.valid
      /\ [e EXCEPT !.age = a].mac = e.mac /\ [e EXCEPT !.age = a].ip = e.ip /\ [e EXCEPT !.age = a].age = a
  BY Zenon, <1>5 DEF Kept
<1> QED  BY Zenon, <1>5, <1>6 DEF a

\* Time ages every mapping and changes no owner.
LEMMA TickStep ==
  ASSUME DiscoveryAssumption, DiscoveryTypeOK, LookupKept, DiscoveryTick
  PROVE  /\ LookupKept' /\ DiscoveryTypeOK'
         /\ \A s \in Slots : entries'[s].valid = entries[s].valid /\ entries'[s].mac = entries[s].mac /\ entries'[s].ip = entries[s].ip
<1>t. entries \in Tables /\ reader \in Lookups
  BY Zenon, TypesOf
<1>n. Oldest \in Nat /\ Ttl \in Nat /\ Delay \in Nat /\ Oldest = Ttl + Delay
  BY Zenon, DiscNumbers DEF Oldest
<1>1. entries' = [s \in Slots |-> [entries[s] EXCEPT !.age = Min({@ + 1, Oldest})]]
  BY Zenon DEF DiscoveryTick
<1>2. \A s \in Slots : /\ entries'[s] \in Kept /\ entries'[s].valid = entries[s].valid /\ entries'[s].mac = entries[s].mac
                       /\ entries'[s].ip = entries[s].ip
                       /\ entries'[s].age = (IF entries[s].age < Oldest THEN entries[s].age + 1 ELSE Oldest)
  <2> SUFFICES ASSUME NEW s \in Slots
               PROVE  /\ entries'[s] \in Kept /\ entries'[s].valid = entries[s].valid /\ entries'[s].mac = entries[s].mac
                      /\ entries'[s].ip = entries[s].ip
                      /\ entries'[s].age = (IF entries[s].age < Oldest THEN entries[s].age + 1 ELSE Oldest)
    BY Zenon
  <2>1. entries[s] \in Kept
    BY Zenon, <1>t DEF Tables
  <2>2. entries'[s] = [entries[s] EXCEPT !.age = Min({@ + 1, Oldest})]
    BY Zenon, <1>1
  <2> QED  BY Zenon, <2>1, <2>2, Older
<1>3. entries' \in Tables
  BY Zenon, <1>1, <1>2 DEF Tables
<1>4. CASE reader.mac = Nobody
  <2>1. reader' = reader
    BY Zenon, <1>4 DEF DiscoveryTick
  <2> QED  BY ZenonT(30), <2>1, <1>2, <1>3, <1>4, <1>t DEF LookupKept, DiscoveryTypeOK, Tables, Kept, Lookups
<1>5. CASE reader.mac # Nobody
  <2>1. reader' = [reader EXCEPT !.skew = @ + 1] /\ reader.skew < Delay
    BY Zenon, <1>5 DEF DiscoveryTick
  <2>2. reader.skew + 1 \in 0..Delay /\ reader.skew \in 0..Delay
    BY <2>1, <1>t, <1>n DEF Lookups
  <2>3. reader' \in Lookups /\ reader'.mac = reader.mac /\ reader'.skew = reader.skew + 1
        /\ reader'.had = reader.had /\ reader'.seen = reader.seen
    BY Zenon, <1>t, <2>1, <2>2 DEF Lookups
  <2>4. ASSUME NEW s \in Slots, entries'[s].valid, entries'[s].mac = reader'.mac
        PROVE  \/ entries'[s].age <= reader'.skew /\ entries'[s].ip \in reader'.seen
               \/ /\ reader'.skew <= entries'[s].age
                  /\ \/ [ip |-> entries'[s].ip, age |-> entries'[s].age - reader'.skew] \in reader'.had
                     \/ Ttl <= entries'[s].age - reader'.skew
    <3> DEFINE a == entries[s].age
               b == entries'[s].age
               k == reader.skew
    <3>1. \/ a <= k /\ entries[s].ip \in reader.seen
          \/ /\ k <= a
             /\ \/ [ip |-> entries[s].ip, age |-> a - k] \in reader.had
                \/ Ttl <= a - k
      BY Zenon, <1>5, <2>3, <2>4, <1>2 DEF LookupKept
    <3>2. a \in 0..Oldest
      BY Zenon, <1>t DEF Tables, Kept
    <3>3. b = (IF a < Oldest THEN a + 1 ELSE Oldest)
      BY Zenon, <1>2
    <3>e. k \in 0..Delay /\ k < Delay
      BY Zenon, <2>1, <2>2
    <3> HIDE DEF a, b, k
    <3>4. CASE a <= k /\ entries[s].ip \in reader.seen
      <4>1. b <= k + 1
        BY <3>2, <3>3, <3>4, <3>e, <1>n
      <4> QED  BY Zenon, <4>1, <3>4, <2>3, <1>2 DEF b, k
    <3>5. CASE k <= a /\ [ip |-> entries[s].ip, age |-> a - k] \in reader.had /\ a < Oldest
      <4>1. k + 1 <= b /\ b - (k + 1) = a - k
        BY <3>2, <3>3, <3>5, <3>e, <1>n
      <4> QED  BY Zenon, <4>1, <3>5, <2>3, <1>2 DEF b, k
    <3>6. CASE (k <= a /\ Ttl <= a - k) \/ a = Oldest
      <4>1. k + 1 <= b /\ Ttl <= b - (k + 1)
        BY <3>2, <3>3, <3>6, <3>e, <1>n
      <4> QED  BY Zenon, <4>1, <2>3 DEF b, k
    <3>7. a < Oldest \/ a = Oldest
      BY <3>2, <1>n
    <3> QED  BY Zenon, <3>1, <3>4, <3>5, <3>6, <3>7
  <2>5. LookupKept'
    BY Zenon, <2>4 DEF LookupKept
  <2> QED  BY Zenon, <2>3, <2>5, <1>2, <1>3 DEF DiscoveryTypeOK, Tables, Kept, Lookups
<1> QED  BY Zenon, <1>4, <1>5

\* A lookup starts from the mappings in force.
LEMMA LookupClockStep ==
  ASSUME DiscoveryAssumption, DiscoveryTypeOK, NEW m \in Looked, LookupClock(m)
  PROVE  LookupKept' /\ reader' \in Lookups
<1>t. entries \in Tables /\ m \in Macs
  BY Zenon, TypesOf DEF DiscoveryAssumption
<1>0. reader' = [mac |-> m, skew |-> 0, had |-> Known(m), seen |-> {}] /\ entries' = entries
  BY Zenon DEF LookupClock
<1>1. ASSUME NEW s \in Slots, entries[s].valid, entries[s].mac = m, entries[s].age < Ttl
      PROVE  [ip |-> entries[s].ip, age |-> entries[s].age] \in Known(m)
  <2> DEFINE e == entries[s]
             x == [mac |-> e.mac, ip |-> e.ip, age |-> e.age]
  <2>1. Expired(entries[s]) = e
    BY Zenon, <1>1 DEF Expired
  <2>2. x \in Mappings
    BY Zenon, <2>1, <1>1 DEF Mappings
  <2>3. x.mac = m /\ x.ip = e.ip /\ x.age = e.age
    BY Zenon, <1>1
  <2> HIDE DEF x, e
  <2>4. [ip |-> x.ip, age |-> x.age] \in Known(m)
    BY Zenon, <2>2, <2>3 DEF Known
  <2> QED  BY Zenon, <2>3, <2>4 DEF e
<1>2. Known(m) \in SUBSET [ip : Ips, age : 0..Oldest]
  <2>1. \A s \in Slots : entries[s] \in Kept /\ Expired(entries[s]) \in Kept
    BY Zenon, <1>t, EmptyKept DEF Tables, Expired
  <2>2. \A x \in Mappings : x.ip \in Ips /\ x.age \in 0..Oldest
    BY <2>1 DEF Mappings, Kept
  <2> QED  BY <2>2 DEF Known
<1>3. 0 \in 0..Delay
  BY DiscNumbers
<1>4. reader' \in Lookups /\ reader'.mac = m /\ reader'.skew = 0 /\ reader'.had = Known(m)
  BY Zenon, <1>0, <1>2, <1>3, <1>t DEF Lookups
<1>5. ASSUME NEW s \in Slots, entries[s].valid, entries[s].mac = m
      PROVE  /\ 0 <= entries[s].age
             /\ \/ [ip |-> entries[s].ip, age |-> entries[s].age - 0] \in Known(m)
                \/ Ttl <= entries[s].age - 0
  <2>1. entries[s].age \in 0..Oldest /\ Oldest \in Nat /\ Ttl \in Nat
    BY Zenon, <1>t, DiscNumbers DEF Tables, Kept
  <2>2. entries[s].age < Ttl \/ Ttl <= entries[s].age
    BY <2>1
  <2>3. entries[s].age - 0 = entries[s].age /\ 0 <= entries[s].age
    BY <2>1
  <2> QED  BY Zenon, <1>1, <1>5, <2>2, <2>3
<1> QED  BY Zenon, <1>0, <1>4, <1>5 DEF LookupKept

\* What is kept of a preempted lookup is what its answer needs.
LEMMA AnswerSound ==
  ASSUME DiscoveryAssumption, DiscoveryTypeOK', Unique(entries'), LookupKept'
  PROVE  LookupSound'
<1>t. entries' \in Tables /\ reader' \in Lookups
  BY Zenon DEF DiscoveryTypeOK, Tables, Kept, Lookups
<1>n. Oldest \in Nat /\ Ttl \in Nat /\ Delay \in Nat /\ Oldest = Ttl + Delay
  BY Zenon, DiscNumbers DEF Oldest
<1>1. ASSUME NEW s \in Slots, s \in Listed', reader'.mac # Nobody
      PROVE  [ip |-> entries'[s].ip, age |-> Age(entries[s])'] \in reader'.had
             \/ (entries'[s].ip \in reader'.seen /\ Age(entries[s])' <= Delay)
  <2> DEFINE a == entries'[s].age
             k == reader'.skew
  <2>1. a \in 0..Oldest /\ k \in 0..Delay
    BY Zenon, <1>t DEF Tables, Kept, Lookups
  <2>2. Age(entries[s])' < Ttl /\ Age(entries[s])' = (IF a < k THEN Oldest ELSE a - k)
    BY Zenon, <1>1 DEF Listed, Age
  <2>3. \/ a <= k /\ entries'[s].ip \in reader'.seen
        \/ /\ k <= a
           /\ \/ [ip |-> entries'[s].ip, age |-> a - k] \in reader'.had
              \/ Ttl <= a - k
    BY Zenon, <1>1 DEF LookupKept, Listed
  <2> HIDE DEF a, k
  <2> DEFINE g == Age(entries[s])'
  <2>g. g < Ttl /\ g = (IF a < k THEN Oldest ELSE a - k)
    BY Zenon, <2>2
  <2> HIDE DEF g
  <2>4. g = a - k /\ ~(Ttl <= a - k) /\ (a <= k => g <= Delay)
    BY <2>1, <2>g, <1>n
  <2> QED  BY Zenon, <2>3, <2>4 DEF g
<1>2. ASSUME NEW s \in Slots, NEW r \in Slots, s \in Listed', r \in Listed', entries'[s].ip = entries'[r].ip
      PROVE  s = r
  BY Zenon, <1>2 DEF Unique, Listed
<1>3. ASSUME reader'.mac # Nobody, NEW x \in Found'
      PROVE  x \in reader'.had \/ (x.ip \in reader'.seen /\ x.age <= Delay)
  <2>1. PICK s \in Slots : s \in Listed' /\ x = [ip |-> entries'[s].ip, age |-> Age(entries[s])']
    BY Zenon, <1>3 DEF Found, Listed
  <2>2. x.ip = entries'[s].ip /\ x.age = Age(entries[s])'
    BY Zenon, <2>1
  <2> QED  BY Zenon, <2>1, <2>2, <1>1, <1>3
<1>4. ASSUME NEW x \in Found', NEW y \in Found', x.ip = y.ip PROVE x = y
  <2>1. PICK s \in Slots : s \in Listed' /\ x = [ip |-> entries'[s].ip, age |-> Age(entries[s])']
    BY Zenon, <1>4 DEF Found, Listed
  <2>2. PICK r \in Slots : r \in Listed' /\ y = [ip |-> entries'[r].ip, age |-> Age(entries[r])']
    BY Zenon, <1>4 DEF Found, Listed
  <2>3. x.ip = entries'[s].ip /\ y.ip = entries'[r].ip
    BY Zenon, <2>1, <2>2
  <2>4. s = r
    BY ZenonT(30), <2>1, <2>2, <2>3, <1>2, <1>4
  <2> QED  BY Zenon, <2>1, <2>2, <2>4
<1> QED  BY Zenon, <1>3, <1>4 DEF LookupSound

\* Every step keeps DiscoveryInv.
LEMMA DiscoveryStep ==
  ASSUME DiscoveryAssumption, DiscoveryInv, [DiscoveryNext]_discoveryVars
  PROVE  DiscoveryInv'
<1>i. DiscoveryTypeOK /\ ShareKept /\ OneOwnerPerAddress /\ LookupKept /\ LookupSound
  BY Zenon DEF DiscoveryInv
<1>t. entries \in Tables /\ reader \in Lookups
  BY Zenon, <1>i, TypesOf
<1>u. Unique(entries)
  BY Zenon, <1>i, <1>t, UniqueSays DEF OneOwnerPerAddress
<1>q. ASSUME DiscoveryTypeOK', ShareKept', Unique(entries'), LookupKept' PROVE DiscoveryInv'
  <2>1. entries' \in Tables
    BY Zenon, <1>q DEF DiscoveryTypeOK, Tables, Kept
  <2>2. OneOwnerPerAddress'
    BY Zenon, <1>q, <2>1, UniqueSays DEF OneOwnerPerAddress
  <2>3. LookupSound'
    BY Zenon, <1>q, AnswerSound
  <2> QED  BY Zenon, <1>q, <2>2, <2>3 DEF DiscoveryInv
<1>1. ASSUME NEW m \in Macs, NEW i \in Ips, ip_discovery_observe(m, i) PROVE DiscoveryInv'
  <2>1. LookupKept' /\ reader' \in Lookups
    BY Zenon, <1>1, <1>i, ObserveLookup
  <2>2. Unique(entries')
    BY Zenon, <1>1, <1>i, <1>u, ObserveOneOwner
  <2>3. entries' \in Tables
    BY Zenon, <1>1, <1>i, ObserveKept
  <2>4. \A n \in Macs : Cardinality(Same(entries', n)) <= PerMac
    BY Zenon, <1>1, <1>i, ObserveShare
  <2> QED  BY Zenon, <1>q, <2>1, <2>2, <2>3, <2>4 DEF DiscoveryTypeOK, Tables, Kept, Lookups, ShareKept
<1>2. CASE DiscoveryTick
  <2>1. LookupKept' /\ DiscoveryTypeOK'
        /\ \A s \in Slots : entries'[s].valid = entries[s].valid /\ entries'[s].mac = entries[s].mac /\ entries'[s].ip = entries[s].ip
    BY Zenon, <1>2, <1>i, TickStep
  <2>2. Unique(entries')
    BY Zenon, <2>1, <1>u DEF Unique
  <2>3. \A n \in Macs : Same(entries', n) = Same(entries, n)
    BY Zenon, <2>1 DEF Same
  <2>4. ShareKept'
    BY Zenon, <2>3, <1>i DEF ShareKept
  <2> QED  BY Zenon, <1>q, <2>1, <2>2, <2>4
<1>3. ASSUME NEW m \in Looked, LookupClock(m) PROVE DiscoveryInv'
  <2>1. LookupKept' /\ reader' \in Lookups
    BY Zenon, <1>3, <1>i, LookupClockStep
  <2>2. entries' = entries
    BY Zenon, <1>3 DEF LookupClock
  <2> QED  BY Zenon, <1>q, <2>1, <2>2, <1>t, <1>u, <1>i
      DEF DiscoveryTypeOK, Tables, Kept, Lookups, ShareKept
<1>4. CASE LookupEnd
  <2>1. entries' = entries /\ reader' = NoReader
    BY Zenon, <1>4 DEF LookupEnd
  <2>2. NoReader \in Lookups /\ NoReader.mac = Nobody
    BY DiscNumbers DEF NoReader, Lookups
  <2> QED  BY Zenon, <1>q, <2>1, <2>2, <1>t, <1>u, <1>i
      DEF DiscoveryTypeOK, Tables, Kept, Lookups, ShareKept, LookupKept
<1>5. CASE UNCHANGED discoveryVars
  BY Zenon, <1>5, <1>q, <1>u, <1>i DEF discoveryVars, DiscoveryTypeOK, ShareKept, LookupKept
<1> QED  BY ZenonT(30), <1>1, <1>2, <1>3, <1>4, <1>5 DEF DiscoveryNext

\* DiscoveryInv holds with the table empty.
LEMMA DiscoveryStart == ASSUME DiscoveryAssumption, DiscoveryInit PROVE DiscoveryInv
<1>1. \A s \in Slots : entries[s] = Empty
  BY Zenon DEF DiscoveryInit
<1>2. entries \in Tables
  BY Zenon, EmptyKept DEF DiscoveryInit, Tables
<1>3. NoReader \in Lookups /\ NoReader.mac = Nobody /\ reader = NoReader
  BY DiscNumbers DEF NoReader, Lookups, DiscoveryInit
<1>4. \A m \in Macs : Same(entries, m) = {}
  BY Zenon, <1>1, EmptyKept DEF Same
<1>5. Cardinality({}) <= PerMac
  BY FS_EmptySet, DiscNumbers
<1>6. Unique(entries)
  BY Zenon, <1>1, EmptyKept DEF Unique
<1>7. OneOwnerPerAddress
  BY Zenon, <1>2, <1>6, UniqueSays DEF OneOwnerPerAddress
<1> QED  BY Zenon, <1>2, <1>3, <1>4, <1>5, <1>7
         DEF DiscoveryInv, DiscoveryTypeOK, Tables, Kept, Lookups, ShareKept, LookupKept, LookupSound

\* ip_discovery: no MAC exceeds its share, no address has two owners, and a lookup
\* preempted after reading the clock returns nothing that was neither in force then nor
\* seen since, for every capacity, share and number of addresses.
THEOREM DiscoverySound == ASSUME DiscoveryAssumption PROVE DiscoverySpec => []DiscoveryInv
<1>1. DiscoveryInit => DiscoveryInv
  BY Zenon, DiscoveryStart
<1>2. DiscoveryInv /\ [DiscoveryNext]_discoveryVars => DiscoveryInv'
  BY Zenon, DiscoveryStep
<1> QED  BY <1>1, <1>2, PTL DEF DiscoverySpec

\* The mapping an entry stands for.
Rec(e) == [mac |-> e.mac, ip |-> e.ip, age |-> e.age]

\* A set listed without repetition by a finite set of slots has as many elements.
LEMMA ListedOnce ==
  ASSUME NEW S, IsFiniteSet(S), NEW T, NEW g, g \in [S -> T],
         \A s, r \in S : g[s] = g[r] => s = r, \A x \in T : \E s \in S : g[s] = x
  PROVE  Cardinality(T) = Cardinality(S)
<1>1. g \in Injection(S, T)
  BY Zenon DEF Injection, IsInjective
<1>2. g \in Surjection(S, T)
  BY Zenon DEF Surjection
<1> QED  BY Zenon, <1>1, <1>2, FS_Surjection

\* The fields of a mapping.
LEMMA RecFields == ASSUME NEW e PROVE Rec(e).mac = e.mac /\ Rec(e).ip = e.ip /\ Rec(e).age = e.age
BY Zenon DEF Rec

\* The mappings in force are those of the valid entries that have not expired.
LEMMA MappingsOf ==
  \A x : x \in Mappings <=> \E s \in Slots : Table[s].valid /\ x = Rec(Table[s])
BY Zenon DEF Mappings, Table, Rec

\* The mappings after an observation, by slot.
LEMMA MappingsAfter ==
  ASSUME DiscoveryAssumption, DiscoveryTypeOK, NEW m \in Macs, NEW i \in Ips, ip_discovery_observe(m, i)
  PROVE  \A x : x \in Mappings' <=>
                 \/ x = [mac |-> m, ip |-> i, age |-> 0]
                 \/ \E s \in Slots \ {Target(Table, m, i)} : Moved(Table, m, i)[s].valid /\ x = Rec(Table[s])
<1> DEFINE T == Target(Table, m, i)
           M == Moved(Table, m, i)
<1>a. entries' \in Tables /\ entries'[T] = Observed(m, i) /\ \A s \in Slots \ {T} : entries'[s] = M[s]
  BY Zenon, ObserveKept
<1>b. Table \in Tables /\ \A s \in Slots : Table[s].valid => Table[s].age < Ttl
  BY Zenon, TableKept
<1>1. T \in Slots /\ \A s \in Slots : M[s].valid => M[s] = Table[s]
  BY Zenon, <1>b, TargetSlot, MovedKept
<1>2. Observed(m, i).valid /\ Observed(m, i).age < Ttl /\ Rec(Observed(m, i)) = [mac |-> m, ip |-> i, age |-> 0]
  <2>1. 0 < Ttl
    BY DiscNumbers
  <2> QED  BY Zenon, <2>1 DEF Observed, Rec
<1> HIDE DEF T, M
<1>3. \A s \in Slots : Table'[s] = Expired(entries'[s])
  BY Zenon DEF Table, Expired
<1>4. Table'[T] = Observed(m, i) /\ Table'[T].valid
  BY ZenonT(30), <1>a, <1>1, <1>2, <1>3 DEF Expired
<1>5. ASSUME NEW s \in Slots \ {T}
      PROVE  Table'[s].valid <=> M[s].valid
  BY ZenonT(30), <1>a, <1>b, <1>1, <1>3, EmptyKept DEF Expired
<1>6. ASSUME NEW s \in Slots \ {T}, M[s].valid
      PROVE  Table'[s] = Table[s]
  BY Zenon, <1>a, <1>b, <1>1, <1>3, <1>6 DEF Expired
<1>7. \A x : x \in Mappings' <=> \E s \in Slots : Table'[s].valid /\ x = Rec(Table'[s])
  BY Zenon DEF Mappings, Table, Rec
<1>8. \A x : x \in Mappings' <=> x = Rec(Observed(m, i)) \/ \E s \in Slots \ {T} : M[s].valid /\ x = Rec(Table[s])
  <2>1. ASSUME NEW x \in Mappings'
        PROVE  x = Rec(Observed(m, i)) \/ \E s \in Slots \ {T} : M[s].valid /\ x = Rec(Table[s])
    <3>1. PICK s \in Slots : Table'[s].valid /\ x = Rec(Table'[s])
      BY Zenon, <1>7
    <3>2. CASE s = T
      BY Zenon, <3>1, <3>2, <1>4
    <3>3. CASE s # T
      BY Zenon, <3>1, <3>3, <1>5, <1>6
    <3> QED  BY Zenon, <3>2, <3>3
  <2>2. Rec(Observed(m, i)) \in Mappings'
    BY Zenon, <1>1, <1>4, <1>7
  <2>3. ASSUME NEW s \in Slots \ {T}, M[s].valid PROVE Rec(Table[s]) \in Mappings'
    BY ZenonT(30), <2>3, <1>5, <1>6, <1>7
  <2> QED  BY Zenon, <2>1, <2>2, <2>3
<1> QED  BY Zenon, <1>8, <1>2 DEF T, M

\* What an observation leaves of the other mappings, when no other slot is given up.
LEMMA NoneGone ==
  ASSUME DiscoveryAssumption, DiscoveryTypeOK, Unique(entries), NEW m \in Macs, NEW i \in Ips, ip_discovery_observe(m, i),
         Moved(Table, m, i) = Table,
         Table[Target(Table, m, i)].valid => Table[Target(Table, m, i)].ip = i
  PROVE  Mappings' = ({x \in Mappings : x.ip # i} \ {}) \union {[mac |-> m, ip |-> i, age |-> 0]}
<1> DEFINE T == Target(Table, m, i)
           f == [mac |-> m, ip |-> i, age |-> 0]
<1>t. T \in Slots /\ (Holding(Table, i) # {} => T \in Holding(Table, i))
  BY Zenon, TableKept, TargetSlot
<1>1. \A s \in Slots : Table[s].valid /\ Table[s].ip = i => s = T
  <2> SUFFICES ASSUME NEW s \in Slots, Table[s].valid, Table[s].ip = i PROVE s = T
    BY Zenon
  <2>1. s \in Holding(Table, i) /\ T \in Holding(Table, i)
    BY Zenon, <1>t DEF Holding
  <2> QED  BY Zenon, <2>1, TableKept DEF Holding, Unique
<1>2. \A x : x \in Mappings' <=> x = f \/ \E s \in Slots \ {T} : Table[s].valid /\ x = Rec(Table[s])
  <2> DEFINE M == Moved(Table, m, i)
  <2>1. \A x : x \in Mappings' <=> x = f \/ \E s \in Slots \ {T} : M[s].valid /\ x = Rec(Table[s])
    BY Zenon, MappingsAfter
  <2>2. M = Table
    BY Zenon
  <2> HIDE DEF M, T, f
  <2> QED  BY Zenon, <2>1, <2>2
<1> HIDE DEF T, f
<1>3. \A x : (\E s \in Slots \ {T} : Table[s].valid /\ x = Rec(Table[s])) <=> (x \in Mappings /\ x.ip # i)
  <2>1. ASSUME NEW x, NEW s \in Slots \ {T}, Table[s].valid, x = Rec(Table[s])
        PROVE  x \in Mappings /\ x.ip # i
    BY Zenon, <2>1, <1>1, MappingsOf, RecFields
  <2>2. ASSUME NEW x \in Mappings, x.ip # i
        PROVE  \E s \in Slots \ {T} : Table[s].valid /\ x = Rec(Table[s])
    <3>1. PICK s \in Slots : Table[s].valid /\ x = Rec(Table[s])
      BY Zenon, MappingsOf
    <3>2. s # T
      BY Zenon, <3>1, <2>2, RecFields DEF T
    <3> QED  BY Zenon, <3>1, <3>2
  <2> QED  BY Zenon, <2>1, <2>2
<1>4. \A x : x \in Mappings' <=> x \in ({y \in Mappings : y.ip # i} \ {}) \union {f}
  BY Zenon, <1>2, <1>3
<1> QED  BY Zenon, <1>4 DEF f

\* ... and when the slot given up is g.
LEMMA OneGone ==
  ASSUME DiscoveryAssumption, DiscoveryTypeOK, Unique(entries), NEW m \in Macs, NEW i \in Ips, ip_discovery_observe(m, i),
         NEW g \in Slots, Table[g].valid, Table[g].ip # i,
         \/ Moved(Table, m, i) = Table /\ g = Target(Table, m, i)
         \/ /\ Moved(Table, m, i) = [Table EXCEPT ![g] = Empty]
            /\ Table[Target(Table, m, i)].valid => Table[Target(Table, m, i)].ip = i
  PROVE  /\ Mappings' = ({x \in Mappings : x.ip # i} \ {Rec(Table[g])}) \union {[mac |-> m, ip |-> i, age |-> 0]}
         /\ Rec(Table[g]) \in {x \in Mappings : x.ip # i}
<1> DEFINE T == Target(Table, m, i)
           M == Moved(Table, m, i)
           f == [mac |-> m, ip |-> i, age |-> 0]
<1>t. T \in Slots /\ Table \in Tables /\ (Holding(Table, i) # {} => T \in Holding(Table, i))
  BY Zenon, TableKept, TargetSlot
<1>u. \A s, r \in Slots : Table[s].valid /\ Table[r].valid /\ Table[s].ip = Table[r].ip => s = r
  BY ZenonT(30), TableKept DEF Unique
<1>1. \A s \in Slots : Table[s].valid /\ Table[s].ip = i => s = T
  <2> SUFFICES ASSUME NEW s \in Slots, Table[s].valid, Table[s].ip = i PROVE s = T
    BY Zenon
  <2>1. s \in Holding(Table, i) /\ T \in Holding(Table, i)
    BY Zenon, <1>t DEF Holding
  <2> QED  BY Zenon, <2>1, <1>u DEF Holding
<1>2. \A x : x \in Mappings' <=> x = f \/ \E s \in Slots \ {T} : M[s].valid /\ x = Rec(Table[s])
  BY ZenonT(30), MappingsAfter
<1>m. \A s \in Slots \ {T} : M[s].valid <=> (Table[s].valid /\ s # g)
  BY Zenon, <1>t, EmptyKept DEF Tables
<1>g. Table[T].valid => T = g \/ Table[T].ip = i
  BY Zenon
<1> HIDE DEF T, f, M
<1>3. \A x : (\E s \in Slots \ {T} : M[s].valid /\ x = Rec(Table[s])) <=> (x \in Mappings /\ x.ip # i /\ x # Rec(Table[g]))
  <2>1. ASSUME NEW x, NEW s \in Slots \ {T}, M[s].valid, x = Rec(Table[s])
        PROVE  x \in Mappings /\ x.ip # i /\ x # Rec(Table[g])
    <3>1. Table[s].valid /\ s # g
      BY Zenon, <2>1, <1>m
    <3>2. x \in Mappings /\ x.ip = Table[s].ip /\ x.ip # i
      BY Zenon, <2>1, <3>1, <1>1, MappingsOf, RecFields
    <3>3. ASSUME x = Rec(Table[g]) PROVE FALSE
      <4>1. x.ip = Table[g].ip
        BY Zenon, <3>3, RecFields
      <4> QED  BY Zenon, <4>1, <3>1, <3>2, <1>u
    <3> QED  BY Zenon, <3>2, <3>3
  <2>2. ASSUME NEW x \in Mappings, x.ip # i, x # Rec(Table[g])
        PROVE  \E s \in Slots \ {T} : M[s].valid /\ x = Rec(Table[s])
    <3>1. PICK s \in Slots : Table[s].valid /\ x = Rec(Table[s])
      BY Zenon, MappingsOf
    <3>2. s # T /\ s # g
      BY Zenon, <3>1, <2>2, <1>g, RecFields
    <3> QED  BY Zenon, <3>1, <3>2, <1>m
  <2> QED  BY Zenon, <2>1, <2>2
<1>4. \A x : x \in Mappings' <=> x \in ({y \in Mappings : y.ip # i} \ {Rec(Table[g])}) \union {f}
  BY Zenon, <1>2, <1>3
<1>5. Rec(Table[g]) \in Mappings /\ Rec(Table[g]).ip # i
  BY Zenon, MappingsOf, RecFields
<1> QED  BY Zenon, <1>4, <1>5 DEF f

\* The mappings of a set of slots are as many as the slots.
LEMMA CountsAgree ==
  ASSUME DiscoveryAssumption, DiscoveryTypeOK, Unique(entries), NEW S \in SUBSET Slots, \A s \in S : Table[s].valid,
         NEW X, \A x : x \in X <=> \E s \in S : x = Rec(Table[s])
  PROVE  Cardinality(X) = Cardinality(S)
<1> DEFINE g == [s \in S |-> Rec(Table[s])]
<1>1. g \in [S -> X] /\ \A x \in X : \E s \in S : g[s] = x
  BY Zenon
<1>2. ASSUME NEW s \in S, NEW r \in S, g[s] = g[r] PROVE s = r
  <2>1. Rec(Table[s]) = Rec(Table[r])
    BY Zenon, <1>2
  <2>2. Table[s].ip = Table[r].ip
    BY ZenonT(30), <2>1, RecFields
  <2> QED  BY ZenonT(30), <2>2, TableKept DEF Unique
<1> HIDE DEF g
<1>3. IsFiniteSet(S)
  BY Zenon, SubsetsFinite
<1> QED  BY Zenon, <1>1, <1>2, <1>3, ListedOnce

\* Limits of slots are limits of mappings.
LEMMA LimitsAgree ==
  ASSUME DiscoveryAssumption, DiscoveryTypeOK, Unique(entries), NEW m \in Macs
  PROVE  /\ Cardinality({x \in Mappings : x.mac = m}) = Cardinality(Same(Table, m))
         /\ Cardinality(Mappings) = Capacity <=> \A s \in Slots : Table[s].valid
<1> DEFINE S == Same(Table, m)
           X == {x \in Mappings : x.mac = m}
           L == {s \in Slots : Table[s].valid}
<1>1. S \in SUBSET Slots /\ L \in SUBSET Slots /\ (\A s \in S : Table[s].valid) /\ (\A s \in L : Table[s].valid)
  BY Zenon DEF Same
<1>2. \A x : x \in X <=> \E s \in S : x = Rec(Table[s])
  BY Zenon, MappingsOf, RecFields DEF Same
<1>3. \A x : x \in Mappings <=> \E s \in L : x = Rec(Table[s])
  BY Zenon, MappingsOf
<1>4. (\A s \in Slots : Table[s].valid) <=> L = Slots
  BY Zenon
<1> HIDE DEF S, X, L
<1>5. Cardinality(X) = Cardinality(S)
  BY Zenon, <1>1, <1>2, CountsAgree
<1>6. Cardinality(Mappings) = Cardinality(L)
  BY Zenon, <1>1, <1>3, CountsAgree
<1>7. Cardinality(L) = Capacity <=> L = Slots
  BY Zenon, <1>1, DiscNumbers, FS_Subset
<1> QED  BY Zenon, <1>4, <1>5, <1>6, <1>7 DEF S, X

\* What an observation drops is what gives way at a limit.
LEMMA ObserveOldest ==
  ASSUME DiscoveryAssumption, DiscoveryTypeOK, Unique(entries), NEW m \in Macs, NEW i \in Ips, ip_discovery_observe(m, i)
  PROVE  \E gone \in SUBSET {x \in Mappings : x.ip # i} :
            /\ GiveWay(m, i, gone)
            /\ Mappings' = ({x \in Mappings : x.ip # i} \ gone) \union {[mac |-> m, ip |-> i, age |-> 0]}
<1> DEFINE T == Target(Table, m, i)
           S == Same(Table, m)
           H == Holding(Table, i)
           F == First(Table, S)
           others == {x \in Mappings : x.ip # i}
           mine == {x \in Mappings : x.mac = m}
           known == \E x \in Mappings : x.ip = i
           after == [mac |-> m, ip |-> i, age |-> 0]
           Full == Cardinality(S) >= PerMac
<1>t. Table \in Tables /\ T \in Slots /\ S \in SUBSET Slots /\ H \in SUBSET Slots
  BY Zenon, TableKept, TargetSlot DEF Same, Holding
<1>u. \A s, r \in Slots : Table[s].valid /\ Table[r].valid /\ Table[s].ip = Table[r].ip => s = r
  BY Zenon, TableKept DEF Unique
<1>h. H # {} => T = Min(H) /\ T \in Slots /\ Table[T].valid /\ Table[T].ip = i
  <2>1. H # {} => T = Min(H) /\ T \in H
    BY Zenon, <1>t, TargetSlot
  <2> QED  BY Zenon, <2>1 DEF Holding
<1>k. known <=> H # {}
  <2>1. ASSUME NEW x \in Mappings, x.ip = i PROVE H # {}
    <3>1. PICK s \in Slots : Table[s].valid /\ x = Rec(Table[s])
      BY Zenon, MappingsOf
    <3>2. Table[s].ip = i
      BY Zenon, <2>1, <3>1, RecFields
    <3> QED  BY Zenon, <3>1, <3>2 DEF Holding
  <2>2. ASSUME H # {} PROVE known
    <3>1. Rec(Table[T]) \in Mappings /\ Rec(Table[T]).ip = i
      BY Zenon, <2>2, <1>h, MappingsOf, RecFields
    <3> QED  BY Zenon, <3>1
  <2> QED  BY Zenon, <2>1, <2>2
<1>w. (\E x \in mine : x.ip = i) <=> H # {} /\ Table[T].mac = m
  <2>1. ASSUME NEW x \in mine, x.ip = i PROVE H # {} /\ Table[T].mac = m
    <3>1. PICK s \in Slots : Table[s].valid /\ x = Rec(Table[s])
      BY Zenon, MappingsOf
    <3>2. Table[s].ip = i /\ Table[s].mac = m
      BY Zenon, <2>1, <3>1, RecFields
    <3>3. H # {}
      BY Zenon, <3>1, <3>2 DEF Holding
    <3>4. s = T
      BY Zenon, <3>1, <3>2, <3>3, <1>h, <1>u
    <3> QED  BY Zenon, <3>2, <3>3, <3>4
  <2>2. ASSUME H # {}, Table[T].mac = m PROVE \E x \in mine : x.ip = i
    <3>1. Rec(Table[T]) \in Mappings /\ Rec(Table[T]).mac = m /\ Rec(Table[T]).ip = i
      BY Zenon, <2>2, <1>h, MappingsOf, RecFields
    <3> QED  BY Zenon, <3>1
  <2> QED  BY Zenon, <2>1, <2>2
<1>c. (Cardinality(mine) >= PerMac <=> Full) /\ (Cardinality(Mappings) = Capacity <=> \A s \in Slots : Table[s].valid)
  BY Zenon, LimitsAgree
<1>f. Full => F \in S /\ F \in Slots /\ Table[F].valid /\ Table[F].mac = m
              /\ \A x \in mine : x.age <= Table[F].age
  <2> SUFFICES ASSUME Full
               PROVE  F \in S /\ F \in Slots /\ Table[F].valid /\ Table[F].mac = m /\ \A x \in mine : x.age <= Table[F].age
    BY Zenon
  <2>1. S # {}
    BY Zenon, <1>t, TargetSlot
  <2>2. F \in S /\ \A r \in S : Table[r].age <= Table[F].age
    BY Zenon, <1>t, <2>1, FirstIsOldest
  <2>3. ASSUME NEW x \in mine PROVE x.age <= Table[F].age
    <3>1. PICK s \in Slots : Table[s].valid /\ x = Rec(Table[s])
      BY Zenon, MappingsOf
    <3>2. s \in S /\ x.age = Table[s].age
      BY Zenon, <2>3, <3>1, RecFields DEF Same
    <3> QED  BY Zenon, <3>2, <2>2
  <2> QED  BY Zenon, <2>2, <2>3 DEF Same
<1>g. \A gone : GiveWay(m, i, gone) <=>
         (IF \E x \in mine : x.ip = i THEN gone = {}
          ELSE IF Cardinality(mine) >= PerMac THEN \E d \in mine : gone = {d} /\ \A x \in mine : x.age <= d.age
          ELSE IF Cardinality(Mappings) = Capacity /\ ~known THEN \E d \in others : gone = {d} /\ \A x \in others : x.age <= d.age
          ELSE gone = {})
  BY Zenon DEF GiveWay
<1>mv. Moved(Table, m, i) = IF Full /\ H # {} /\ Table[T].mac # m THEN [Table EXCEPT ![F] = Empty] ELSE Table
  <2>1. (\E s \in H : s = Min(H) /\ Table[s].mac # m) <=> (H # {} /\ Table[T].mac # m)
    BY Zenon, <1>h, <1>t, TargetSlot
  <2> QED  BY Zenon, <2>1 DEF Moved
<1> DEFINE Goal == \E gone \in SUBSET others : GiveWay(m, i, gone) /\ Mappings' = (others \ gone) \union {after}
<1>n. ASSUME Mappings' = (others \ {}) \union {after}, GiveWay(m, i, {}) PROVE Goal
  BY Zenon, <1>n
<1>o. ASSUME NEW d \in others, Mappings' = (others \ {d}) \union {after}, GiveWay(m, i, {d}) PROVE Goal
  BY Zenon, <1>o
<1>1. CASE H # {} /\ Table[T].mac = m
  <2>1. GiveWay(m, i, {})
    BY Zenon, <1>1, <1>w, <1>g
  <2>2. Mappings' = (others \ {}) \union {after}
    BY Zenon, <1>1, <1>mv, <1>h, NoneGone
  <2> QED  BY Zenon, <1>n, <2>1, <2>2
<1>2. CASE H # {} /\ Table[T].mac # m /\ ~Full
  <2>1. GiveWay(m, i, {})
    BY ZenonT(30), <1>2, <1>w, <1>g, <1>c, <1>k
  <2>2. Mappings' = (others \ {}) \union {after}
    BY Zenon, <1>2, <1>mv, <1>h, NoneGone
  <2> QED  BY Zenon, <1>n, <2>1, <2>2
<1>3. CASE Full /\ ~(H # {} /\ Table[T].mac = m)
  <2>1. F \in Slots /\ Table[F].valid /\ Table[F].mac = m /\ \A x \in mine : x.age <= Table[F].age
    BY Zenon, <1>3, <1>f
  <2>2. Table[F].ip # i
    <3> SUFFICES ASSUME Table[F].ip = i PROVE FALSE
      BY Zenon
    <3>1. H # {}
      BY Zenon, <2>1 DEF Holding
    <3>2. F = T
      BY Zenon, <2>1, <3>1, <1>h, <1>u
    <3> QED  BY ZenonT(30), <1>3, <2>1, <3>1, <3>2
  <2>3. \/ Moved(Table, m, i) = Table /\ F = T
        \/ Moved(Table, m, i) = [Table EXCEPT ![F] = Empty] /\ (Table[T].valid => Table[T].ip = i)
    <3>1. CASE H # {}
      BY Zenon, <3>1, <1>3, <1>mv, <1>h
    <3>2. CASE H = {}
      BY ZenonT(30), <3>2, <1>3, <1>mv, <1>t, TargetSlot
    <3> QED  BY Zenon, <3>1, <3>2
  <2>4. Mappings' = (others \ {Rec(Table[F])}) \union {after} /\ Rec(Table[F]) \in others
    BY Zenon, <2>1, <2>2, <2>3, OneGone
  <2>5. Rec(Table[F]) \in mine /\ \A x \in mine : x.age <= Rec(Table[F]).age
    BY ZenonT(30), <2>1, <2>4, RecFields
  <2>6. GiveWay(m, i, {Rec(Table[F])})
    BY ZenonT(30), <2>5, <1>3, <1>c, <1>w, <1>g
  <2> QED  BY Zenon, <2>4, <2>6, <1>o
<1>4. CASE H = {} /\ ~Full /\ \E s \in Slots : ~Table[s].valid
  <2> DEFINE free == {s \in Slots : ~Table[s].valid}
  <2>1. T = Max(free) /\ free # {}
    BY Zenon, <1>4 DEF Target, Slot
  <2>2. free \in SUBSET (0..Capacity) /\ Capacity \in Nat
    BY DiscNumbers DEF Slots
  <2>3. T \in free
    BY Zenon, <2>1, <2>2, GreatestOf
  <2>4. Mappings' = (others \ {}) \union {after}
    BY Zenon, <2>3, <1>4, <1>mv, NoneGone
  <2>5. GiveWay(m, i, {})
    BY Zenon, <1>4, <1>c, <1>w, <1>g
  <2> QED  BY Zenon, <1>n, <2>4, <2>5
<1>5. CASE H = {} /\ ~Full /\ \A s \in Slots : Table[s].valid
  <2>1. T = First(Table, Slots)
    BY Zenon, <1>5 DEF Target, Slot
  <2>2. Slots # {}
    BY Zenon, <1>t
  <2>3. T \in Slots /\ Table[T].valid /\ \A r \in Slots : Table[r].age <= Table[T].age
    BY Zenon, <1>5, <1>t, <2>1, <2>2, FirstIsOldest
  <2>4. Table[T].ip # i
    BY Zenon, <1>5, <2>3 DEF Holding
  <2>5. Mappings' = (others \ {Rec(Table[T])}) \union {after} /\ Rec(Table[T]) \in others
    BY Zenon, <2>3, <2>4, <1>5, <1>mv, OneGone
  <2>6. ASSUME NEW x \in others PROVE x.age <= Rec(Table[T]).age
    <3>1. PICK s \in Slots : Table[s].valid /\ x = Rec(Table[s])
      BY Zenon, MappingsOf
    <3>2. x.age = Table[s].age /\ Rec(Table[T]).age = Table[T].age
      BY Zenon, <3>1, RecFields
    <3> QED  BY Zenon, <3>2, <2>3
  <2>7. GiveWay(m, i, {Rec(Table[T])})
    BY ZenonT(30), <2>5, <2>6, <1>5, <1>c, <1>k, <1>w, <1>g
  <2> QED  BY Zenon, <2>5, <2>7, <1>o
<1> QED  BY ZenonT(30), <1>1, <1>2, <1>3, <1>4, <1>5

\* ip_discovery_observe drops a mapping only at a limit, the MAC's share or the table's,
\* and then only the oldest one.
THEOREM DiscoverySteps == ASSUME DiscoveryAssumption PROVE DiscoverySpec => EvictsOldestAtLimit
<1>1. DiscoveryInv /\ [DiscoveryNext]_discoveryVars => [ObserveStep]_discoveryVars
  <2> SUFFICES ASSUME DiscoveryInv, NEW m \in Macs, NEW i \in Ips, ip_discovery_observe(m, i)
               PROVE  LET others == {x \in Mappings : x.ip # i}
                      IN \E gone \in SUBSET others :
                           /\ GiveWay(m, i, gone)
                           /\ Mappings' = (others \ gone) \union {[mac |-> m, ip |-> i, age |-> 0]}
    BY Zenon DEF ObserveStep
  <2>1. DiscoveryTypeOK /\ OneOwnerPerAddress
    BY Zenon DEF DiscoveryInv
  <2>2. Unique(entries)
    BY Zenon, <2>1, TypesOf, UniqueSays DEF OneOwnerPerAddress
  <2> QED  BY Zenon, <2>1, <2>2, ObserveOldest
<1>2. DiscoverySpec => []DiscoveryInv
  BY Zenon, DiscoverySound
<1> QED  BY <1>1, <1>2, PTL DEF DiscoverySpec, EvictsOldestAtLimit
=============================================================================
