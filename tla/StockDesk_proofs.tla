-------------------------- MODULE StockDesk_proofs -------------------------
(***************************************************************************)
(* Proofs about StockDesk for any number of sessions, returns, clicks,     *)
(* restarts and errors after a commit.                                     *)
(***************************************************************************)
EXTENDS StockDesk, TLAPS

Working(s) == session[s].at \in {"read", "locked"}

Active(s) == Working(s) \/ session[s].at = "done"

(* A click that is under way is known by its key and by no other session.  *)
(* Since its key was last forgotten its work was not committed, until the  *)
(* handler has done so; without a key it was not either.                   *)
KeysGuard ==
    /\ \A s \in Sessions : Active(s) => session[s].req \in keys
    /\ \A s \in Sessions : Working(s) => acted[session[s].req] = forgot[session[s].req]
    /\ \A s \in Sessions : session[s].at = "done" =>
          acted[session[s].req] = forgot[session[s].req] + 1
    /\ \A s, t \in Sessions : s # t /\ Active(s) /\ Active(t) => session[s].req # session[t].req
    /\ \A q \in Requests : q \notin keys => acted[q] = forgot[q]
    /\ ClickActsOnce

(* Only an undo holds the part between two steps, one at a time; it knows  *)
(* the row, and what it takes out is there.                                *)
UndoHoldsPart ==
    /\ \A s \in Sessions : session[s].at = "locked" =>
          session[s].req.op = "undo" /\ session[s].seen.part = part /\ part.good >= PerProduct
    /\ \A s, t \in Sessions : session[s].at = "locked" /\ session[t].at = "locked" => s = t

IInv == TypeOK /\ KeysGuard /\ UndoHoldsPart /\ LockedWritersLoseNothing

-----------------------------------------------------------------------------
(* Every step that commits: the stock it moves is typed, and the work of   *)
(* its click was not committed since its key was last forgotten.           *)

(* What a session in hand looks like. *)
LEMMA SessionShape ==
  ASSUME TypeOK, NEW s \in Sessions
  PROVE  /\ session[s].at \in {"free", "poll", "read", "locked", "done"}
         /\ session[s].at = "free" <=> session[s] = Free
         /\ session[s].at = "poll" => session[s].of \in Returns /\ session[s].seen \in Verdicts
         /\ Active(s) => session[s].req \in Requests
         /\ Working(s) => session[s].seen \in Snapshots
<1>1. session[s] \in SessionStates
  BY DEF TypeOK
<1>2. CASE session[s] \in [at : {"free"}]
  BY <1>2 DEF Free, Active, Working
<1>3. CASE session[s] \in [at : {"poll"}, of : Returns, seen : Verdicts]
  BY <1>3 DEF Free, Active, Working
<1>4. CASE session[s] \in [at : {"read", "locked"}, req : Requests, seen : Snapshots]
  BY <1>4 DEF Free, Active, Working
<1>5. CASE session[s] \in [at : {"done"}, req : Requests]
  BY <1>5 DEF Free, Active, Working
<1> QED
  BY <1>1, <1>2, <1>3, <1>4, <1>5 DEF SessionStates

(* A request has the fields that its operation needs. *)
LEMMA RequestShape ==
  ASSUME NEW q \in Requests
  PROVE  /\ q.op \in Ops /\ q.n \in Nat
         /\ q.op \in {"confirm", "damage"} => q.of \in Returns
         /\ q.op = "undo" => q.of \in Cuts
         /\ q.op = "cut" => q \in Cuts
BY DeskAssumption DEF Cuts

(* The snapshot that a session takes. *)
LEMMA ReadTyped == ASSUME TypeOK, NEW q \in Requests PROVE Read(q) \in Snapshots
<1>1. (IF q.of \in Returns THEN verdict[q.of] ELSE "open") \in Verdicts
  BY DEF TypeOK, Verdicts
<1>2. (q.of \in log.undone \/ q \in log.approved) \in BOOLEAN
  OBVIOUS
<1>3. (IF q.op = "confirm" THEN product ELSE 0) \in Nat
  BY DEF TypeOK
<1>4. (IF q.op \in Buttons THEN part ELSE [good |-> 0, bad |-> 0]) \in [good : Nat, bad : Nat]
  BY DEF TypeOK
<1> QED
  BY <1>1, <1>2, <1>3, <1>4 DEF Read, Snapshots

(* A session that commits the work of its click. *)
LEMMA CommitStep ==
  ASSUME TypeOK, KeysGuard, NEW s \in Sessions, Working(s), Commit(s)
  PROVE  /\ acted' \in [Requests -> Nat] /\ UNCHANGED memory
         /\ session' \in [Sessions -> SessionStates]
         /\ session'[s].at = "done" /\ \A t \in Sessions \ {s} : session'[t] = session[t]
         /\ acted'[session[s].req] > 0
         /\ \A p \in Requests : acted'[p] >= acted[p]
         /\ KeysGuard'
<1> DEFINE q == session[s].req
           x == [at |-> "done", req |-> q]
<1>1. q \in Requests /\ q \in keys /\ acted[q] = forgot[q] /\ Active(s)
  BY SessionShape DEF KeysGuard, Active
<1>2. /\ acted' = [acted EXCEPT ![q] = @ + 1] /\ session' = [session EXCEPT ![s] = x]
      /\ keys' = keys /\ forgot' = forgot /\ UNCHANGED memory
  BY DEF Commit, memory
<1>3. x \in SessionStates
  BY <1>1 DEF SessionStates
<1>4. acted' \in [Requests -> Nat] /\ session' \in [Sessions -> SessionStates]
  BY <1>1, <1>2, <1>3 DEF TypeOK
<1>5. /\ acted'[q] = acted[q] + 1 /\ \A p \in Requests \ {q} : acted'[p] = acted[p]
      /\ \A p \in Requests : acted[p] \in Nat /\ forgot[p] \in Nat
  BY <1>1, <1>2 DEF TypeOK
<1>6. /\ session'[s] = x /\ Active(s)' /\ ~Working(s)'
      /\ \A t \in Sessions \ {s} : session'[t] = session[t]
      /\ \A t \in Sessions \ {s} : (Active(t)' <=> Active(t)) /\ (Working(t)' <=> Working(t))
  BY <1>2 DEF Active, Working, TypeOK
<1>7. \A t \in Sessions : Active(t) => session[t].req \in Requests
  BY SessionShape
<1>8. \A t \in Sessions \ {s} : Active(t) => session[t].req # q
  BY <1>1 DEF KeysGuard
<1>9. KeysGuard'
  <2>1. \A t \in Sessions : Active(t)' => session'[t].req \in keys'
    BY <1>1, <1>2, <1>6 DEF KeysGuard
  <2>2. \A t \in Sessions : Working(t)' => acted'[session'[t].req] = forgot'[session'[t].req]
    BY <1>2, <1>5, <1>6, <1>7, <1>8 DEF KeysGuard, Active
  <2>3. \A t \in Sessions : session'[t].at = "done" =>
          acted'[session'[t].req] = forgot'[session'[t].req] + 1
    BY <1>1, <1>2, <1>5, <1>6, <1>7, <1>8 DEF KeysGuard, Active
  <2>4. \A t, u \in Sessions : t # u /\ Active(t)' /\ Active(u)' => session'[t].req # session'[u].req
    BY <1>1, <1>6, <1>8 DEF KeysGuard
  <2>5. \A p \in Requests : p \notin keys' => acted'[p] = forgot'[p]
    BY <1>1, <1>2, <1>5 DEF KeysGuard
  <2>6. ClickActsOnce'
    BY <1>1, <1>2, <1>5 DEF KeysGuard, ClickActsOnce
  <2> QED
    BY <2>1, <2>2, <2>3, <2>4, <2>5, <2>6 DEF KeysGuard
<1> QED
  BY <1>1, <1>2, <1>4, <1>5, <1>6, <1>9

(* A session that keeps its click while nothing is committed, or gives a   *)
(* click up together with its key: the others do not notice.               *)
LEMMA DropStep ==
  ASSUME TypeOK, KeysGuard, NEW s \in Sessions, Active(s), acted' = acted,
         keys' = keys \ {session[s].req}, session' = [session EXCEPT ![s] = Free],
         forgot' = [forgot EXCEPT ![session[s].req] = acted[session[s].req]]
  PROVE  /\ KeysGuard' /\ keys' \subseteq Requests /\ forgot' \in [Requests -> Nat]
         /\ session' \in [Sessions -> SessionStates]
<1> DEFINE q == session[s].req
<1>1. q \in Requests
  BY SessionShape
<1>2. Free \in SessionStates
  BY DEF Free, SessionStates
<1>3. /\ forgot'[q] = acted[q] /\ \A p \in Requests \ {q} : forgot'[p] = forgot[p]
      /\ \A p \in Requests : acted[p] \in Nat
      /\ forgot' \in [Requests -> Nat] /\ keys' \subseteq Requests
      /\ session' \in [Sessions -> SessionStates]
  BY <1>1, <1>2 DEF TypeOK
<1>4. /\ session'[s] = Free /\ ~Active(s)'
      /\ \A t \in Sessions \ {s} : /\ session'[t] = session[t]
                                   /\ (Active(t)' <=> Active(t)) /\ (Working(t)' <=> Working(t))
  BY DEF Active, Working, Free, TypeOK
<1>5. \A t \in Sessions \ {s} : Active(t) => session[t].req # q /\ session[t].req \in Requests
  BY SessionShape DEF KeysGuard
<1>6. KeysGuard'
  <2>1. \A t \in Sessions : Active(t)' => session'[t].req \in keys'
    BY <1>4, <1>5 DEF KeysGuard
  <2>2. \A t \in Sessions : Working(t)' => acted'[session'[t].req] = forgot'[session'[t].req]
    BY <1>3, <1>4, <1>5 DEF KeysGuard, Active
  <2>3. \A t \in Sessions : session'[t].at = "done" =>
          acted'[session'[t].req] = forgot'[session'[t].req] + 1
    BY <1>3, <1>4, <1>5 DEF KeysGuard, Active
  <2>4. \A t, u \in Sessions : t # u /\ Active(t)' /\ Active(u)' => session'[t].req # session'[u].req
    BY <1>4 DEF KeysGuard
  <2>5. \A p \in Requests : p \notin keys' => acted'[p] = forgot'[p]
    BY <1>1, <1>3 DEF KeysGuard
  <2>6. ClickActsOnce'
    BY <1>1, <1>3 DEF KeysGuard, ClickActsOnce
  <2> QED
    BY <2>1, <2>2, <2>3, <2>4, <2>5, <2>6 DEF KeysGuard
<1> QED
  BY <1>3, <1>6

(* While nobody holds the part, a step that commits leaves nobody holding. *)
LEMMA FreeStep ==
  ASSUME NEW s \in Sessions, PartFree, session'[s].at # "locked",
         \A t \in Sessions \ {s} : session'[t] = session[t]
  PROVE  UndoHoldsPart'
<1>1. \A t \in Sessions : session'[t].at # "locked"
  BY DEF PartFree
<1> QED
  BY <1>1 DEF UndoHoldsPart

(* A step of a session that leaves the part alone and does not hold it.    *)
LEMMA HolderStep ==
  ASSUME UndoHoldsPart, NEW s \in Sessions, part' = part, session'[s].at # "locked",
         \A t \in Sessions \ {s} : session'[t] = session[t]
  PROVE  UndoHoldsPart'
BY DEF UndoHoldsPart

(* Movements and products are numbers. *)
LEMMA MoveTyped ==
  ASSUME TypeOK, NEW g \in Int, NEW b \in Int, Move(g, b)
  PROVE  /\ books' \in [good : Int, bad : Int, returned : [Returns -> Nat]]
         /\ books'.good = books.good + g /\ books'.bad = books.bad + b
<1>1. books \in [good : Int, bad : Int, returned : [Returns -> Nat]]
  BY DEF TypeOK
<1>2. books' = [books EXCEPT !.good = books.good + g, !.bad = books.bad + b]
  BY DEF Move
<1>3. books.good + g \in Int /\ books.bad + b \in Int
  BY <1>1
<1>4. books' = [good |-> books.good + g, bad |-> books.bad + b, returned |-> books.returned]
  BY <1>1, <1>2
<1> QED
  BY <1>1, <1>3, <1>4

-----------------------------------------------------------------------------
(* The inductive invariant *)

(* No session is at work at first. *)
LEMMA InitHolds == Init => IInv
<1> SUFFICES ASSUME Init PROVE IInv
  OBVIOUS
<1>1. \A s \in Sessions : session[s].at = "free"
  BY DEF Init, Free
<1>2. Free \in SessionStates
  BY DEF Free, SessionStates
<1>3. TypeOK
  BY <1>2, DeskAssumption DEF Init, TypeOK, Verdicts
<1>4. LockedWritersLoseNothing
  BY DEF Init, LockedWritersLoseNothing, PartsMatchLedger
<1> QED
  BY <1>1, <1>3, <1>4 DEF Init, IInv, KeysGuard, UndoHoldsPart, ClickActsOnce, Active, Working

(* Stock and ledger of the parts rest, and so does what was committed. *)
LEMMA BooksRest ==
  ASSUME LockedWritersLoseNothing, part' = part, acted' = acted,
         books'.good = books.good, books'.bad = books.bad
  PROVE  LockedWritersLoseNothing'
BY DEF LockedWritersLoseNothing, PartsMatchLedger

(* A click that arrives. *)
LEMMA ArriveStep ==
  ASSUME IInv, NEW s \in Sessions, NEW q \in Requests, Arrive(s, q) PROVE IInv'
<1> DEFINE x == [at |-> "read", req |-> q, seen |-> Read(q)]
<1>1. /\ session[s] = Free /\ q \notin keys /\ keys' = keys \cup {q}
      /\ session' = [session EXCEPT ![s] = x] /\ UNCHANGED <<rows, forgot, faults>>
  BY DEF Arrive
<1>2. x \in SessionStates
  BY ReadTyped DEF IInv, SessionStates
<1>3. TypeOK'
  BY <1>1, <1>2 DEF IInv, TypeOK, rows
<1>4. /\ session'[s] = x /\ Active(s)' /\ ~Active(s) /\ Working(s)'
      /\ \A t \in Sessions \ {s} : /\ session'[t] = session[t]
                                   /\ (Active(t)' <=> Active(t)) /\ (Working(t)' <=> Working(t))
  BY <1>1 DEF IInv, TypeOK, Active, Working, Free
<1>5. \A t \in Sessions : Active(t) => session[t].req \in Requests /\ session[t].req # q
  BY <1>1, SessionShape DEF IInv, KeysGuard
<1>6. acted[q] = forgot[q] /\ acted' = acted /\ forgot' = forgot
  BY <1>1 DEF IInv, KeysGuard, rows
<1>7. KeysGuard'
  <2>1. \A t \in Sessions : Active(t)' => session'[t].req \in keys'
    BY <1>1, <1>4, <1>5 DEF IInv, KeysGuard
  <2>2. \A t \in Sessions : Working(t)' => acted'[session'[t].req] = forgot'[session'[t].req]
    BY <1>4, <1>6 DEF IInv, KeysGuard
  <2>3. \A t \in Sessions : session'[t].at = "done" =>
          acted'[session'[t].req] = forgot'[session'[t].req] + 1
    BY <1>4, <1>6 DEF IInv, KeysGuard
  <2>4. \A t, u \in Sessions : t # u /\ Active(t)' /\ Active(u)' => session'[t].req # session'[u].req
    BY <1>4, <1>5 DEF IInv, KeysGuard
  <2>5. (\A p \in Requests : p \notin keys' => acted'[p] = forgot'[p]) /\ ClickActsOnce'
    BY <1>1, <1>6 DEF IInv, KeysGuard, ClickActsOnce
  <2> QED
    BY <2>1, <2>2, <2>3, <2>4, <2>5 DEF KeysGuard
<1>8. UndoHoldsPart'
  <2>1. part' = part /\ session'[s].at # "locked"
    BY <1>1, <1>4 DEF rows
  <2> QED
    BY <1>4, <2>1, HolderStep DEF IInv
<1>9. LockedWritersLoseNothing'
  BY <1>1, BooksRest DEF IInv, rows
<1> QED
  BY <1>3, <1>7, <1>8, <1>9 DEF IInv

(* An error, before or after the commit, gives the key back. *)
LEMMA FailStep ==
  ASSUME IInv, NEW s \in Sessions, Fail(s) \/ FailAfterCommit(s) PROVE IInv'
<1> DEFINE q == session[s].req
<1>1. /\ Active(s) /\ keys' = keys \ {q} /\ session' = [session EXCEPT ![s] = Free]
      /\ UNCHANGED rows /\ acted' = acted
  BY DEF Fail, FailAfterCommit, Active, Working, rows
<1>2. q \in Requests
  BY <1>1, SessionShape DEF IInv
<1>3. forgot' = [forgot EXCEPT ![q] = acted[q]]
  <2>1. CASE Fail(s)
    <3>1. acted[q] = forgot[q] /\ forgot' = forgot
      BY <2>1 DEF Fail, IInv, KeysGuard, Working
    <3> QED
      BY <1>2, <3>1 DEF IInv, TypeOK
  <2>2. CASE FailAfterCommit(s)
    BY <2>2 DEF FailAfterCommit
  <2> QED
    BY <2>1, <2>2
<1>4. faults' \in 0..MaxFaults
  BY DeskAssumption DEF Fail, FailAfterCommit, IInv, TypeOK
<1>5. /\ KeysGuard' /\ keys' \subseteq Requests /\ forgot' \in [Requests -> Nat]
      /\ session' \in [Sessions -> SessionStates]
  BY <1>1, <1>3, DropStep DEF IInv
<1>6. TypeOK'
  BY <1>1, <1>4, <1>5 DEF IInv, TypeOK, rows
<1>7. UndoHoldsPart'
  <2>1. part' = part /\ session'[s].at # "locked" /\ \A t \in Sessions \ {s} : session'[t] = session[t]
    BY <1>1 DEF rows, Free, IInv, TypeOK
  <2> QED
    BY <2>1, HolderStep DEF IInv
<1>8. LockedWritersLoseNothing'
  BY <1>1, BooksRest DEF IInv, rows
<1> QED
  BY <1>5, <1>6, <1>7, <1>8 DEF IInv

(* A restart forgets sessions and keys; what is committed stays. *)
LEMMA RestartStep == ASSUME IInv, Restart PROVE IInv'
<1>1. /\ keys' = {} /\ forgot' = acted /\ UNCHANGED rows /\ acted' = acted
      /\ session' = [s \in Sessions |-> Free] /\ faults' \in 0..MaxFaults
  BY DeskAssumption DEF Restart, rows, IInv, TypeOK
<1>2. Free \in SessionStates /\ Free.at = "free"
  BY DEF Free, SessionStates
<1>3. TypeOK'
  BY <1>1, <1>2 DEF IInv, TypeOK, rows
<1>4. \A s \in Sessions : session'[s].at = "free" /\ ~Active(s)' /\ ~Working(s)'
  BY <1>1, <1>2 DEF Active, Working
<1>5. KeysGuard'
  <2>1. \A q \in Requests : acted'[q] = forgot'[q] /\ acted'[q] \in Nat
    BY <1>1 DEF IInv, TypeOK
  <2> QED
    BY <1>4, <2>1 DEF KeysGuard, ClickActsOnce
<1>6. UndoHoldsPart'
  BY <1>4 DEF UndoHoldsPart
<1>7. LockedWritersLoseNothing'
  BY <1>1, BooksRest DEF IInv, rows
<1> QED
  BY <1>3, <1>5, <1>6, <1>7 DEF IInv

(* The answer of a click whose work is committed; the poll of the courier, *)
(* which has no key.  None of them touches the parts.                      *)
LEMMA QuietStep ==
  ASSUME IInv, NEW s \in Sessions, NEW r, Answer(s) \/ (r \in Returns /\ Poll(s, r)) \/ Signed(s)
  PROVE  IInv'
<1> DEFINE x == IF r \in Returns /\ Poll(s, r) THEN [at |-> "poll", of |-> r, seen |-> verdict[r]] ELSE Free
<1>1. /\ session' = [session EXCEPT ![s] = x] /\ x.at \in {"free", "poll"}
      /\ UNCHANGED <<product, part, log, books, acted, keys, forgot, faults>>
  BY DEF Answer, Poll, Signed, rows, memory, Free
<1>2. x \in SessionStates
  BY DEF SessionStates, Free, IInv, TypeOK, Verdicts
<1>3. verdict' \in [Returns -> Verdicts] /\ tracked' \subseteq Returns
  <2>1. CASE (r \in Returns /\ Poll(s, r)) \/ Answer(s)
    BY <2>1 DEF Poll, Answer, rows, IInv, TypeOK
  <2>2. CASE Signed(s)
    <3>1. session[s].of \in Returns
      BY <2>2, SessionShape DEF Signed, IInv
    <3> QED
      BY <2>2, <3>1 DEF Signed, IInv, TypeOK, Verdicts
  <2> QED
    BY <2>1, <2>2
<1>4. TypeOK'
  BY <1>1, <1>2, <1>3 DEF IInv, TypeOK
<1>5. /\ session'[s] = x /\ ~Active(s)'
      /\ \A t \in Sessions \ {s} : /\ session'[t] = session[t]
                                   /\ (Active(t)' <=> Active(t)) /\ (Working(t)' <=> Working(t))
  BY <1>1 DEF IInv, TypeOK, Active, Working
<1>6. KeysGuard'
  BY <1>1, <1>5 DEF IInv, KeysGuard, ClickActsOnce, Active
<1>7. UndoHoldsPart'
  BY <1>1, <1>5, HolderStep DEF IInv
<1>8. LockedWritersLoseNothing'
  BY <1>1, BooksRest DEF IInv
<1> QED
  BY <1>4, <1>6, <1>7, <1>8 DEF IInv

(* An undo that has locked the part keeps its click. *)
LEMMA LockUndoStep == ASSUME IInv, NEW s \in Sessions, LockUndo(s) PROVE IInv'
<1> DEFINE now == [session[s].seen EXCEPT !.product = product, !.part = part]
           x == [at |-> "locked", req |-> session[s].req, seen |-> now]
<1>1. /\ session[s].at = "read" /\ session[s].req.op = "undo" /\ part.good >= PerProduct
      /\ session' = [session EXCEPT ![s] = x] /\ UNCHANGED <<rows, memory>> /\ PartFree
  BY DEF LockUndo, At
<1>2. session[s] \in [at : {"read", "locked"}, req : Requests, seen : Snapshots]
  BY <1>1 DEF IInv, TypeOK, SessionStates
<1>3. /\ x \in [at : {"read", "locked"}, req : Requests, seen : Snapshots]
      /\ x.at = "locked" /\ x.req = session[s].req /\ x.seen.part = part
  <2>1. session[s].seen \in Snapshots
    BY <1>2
  <2>2. now \in Snapshots /\ now.part = part
    BY <2>1 DEF IInv, TypeOK, Snapshots
  <2> QED
    BY <1>2, <2>2
<1>4. TypeOK'
  BY <1>1, <1>3 DEF IInv, TypeOK, SessionStates, rows, memory
<1>5. /\ session'[s] = x /\ \A t \in Sessions \ {s} : session'[t] = session[t]
      /\ \A t \in Sessions : /\ session'[t].req = session[t].req
                            /\ (Active(t)' <=> Active(t)) /\ (Working(t)' <=> Working(t))
                            /\ (session'[t].at = "done" <=> session[t].at = "done")
  BY <1>1, <1>3 DEF IInv, TypeOK, Active, Working
<1>6. KeysGuard'
  BY <1>1, <1>5 DEF IInv, KeysGuard, ClickActsOnce, rows, memory
<1>7. UndoHoldsPart'
  <2>1. part' = part
    BY <1>1 DEF rows
  <2> QED
    BY <1>1, <1>3, <1>5, <2>1 DEF UndoHoldsPart, PartFree
<1>8. LockedWritersLoseNothing'
  BY <1>1, BooksRest DEF IInv, rows
<1> QED
  BY <1>4, <1>6, <1>7, <1>8 DEF IInv

(* Part and ledger move by the same amounts. *)
LEMMA BooksMove ==
  ASSUME TypeOK, LockedWritersLoseNothing,
         part' \in [good : Nat, bad : Nat],
         books' \in [good : Int, bad : Int, returned : [Returns -> Nat]],
         acted' \in [Requests -> Nat], \A p \in Requests : acted'[p] >= acted[p],
         part'.good - part.good = books'.good - books.good,
         part'.bad - part.bad = books'.bad - books.bad
  PROVE  LockedWritersLoseNothing'
<1> SUFFICES ASSUME \A p \in Requests : p.op \in Buttons => acted'[p] = 0
             PROVE  PartsMatchLedger'
  BY DEF LockedWritersLoseNothing
<1>1. \A p \in Requests : p.op \in Buttons => acted[p] = 0
  BY DEF TypeOK
<1>2. part.good = books.good /\ part.bad = books.bad
  BY <1>1 DEF LockedWritersLoseNothing, PartsMatchLedger
<1>3. /\ part.good \in Int /\ part.bad \in Int /\ books.good \in Int /\ books.bad \in Int
      /\ part'.good \in Int /\ part'.bad \in Int /\ books'.good \in Int /\ books'.bad \in Int
  BY DEF TypeOK
<1> QED
  BY <1>2, <1>3 DEF PartsMatchLedger

(* The handlers that commit: what they write is typed, none of them        *)
(* touches the part while an undo holds it, and those that lock the row    *)
(* before they read it lose nothing.                                       *)
LEMMA CommitsStep ==
  ASSUME IInv, NEW s \in Sessions,
         \/ Confirm(s) \/ Damage(s) \/ Cut(s) \/ Undo(s) \/ Defect(s) \/ Resolve(s) \/ Count(s)
  PROVE  IInv'
<1> DEFINE q == session[s].req
<1>1. Working(s) /\ Commit(s)
  BY DEF Confirm, Damage, Cut, Undo, Defect, Resolve, Count, At, Working
<1>2. /\ q \in Requests /\ session[s].seen \in Snapshots
  BY <1>1, SessionShape DEF IInv, Active
<1>3. /\ q.op \in Ops /\ q.n \in Nat
      /\ q.op \in {"confirm", "damage"} => q.of \in Returns
      /\ q.op = "undo" => q.of \in Cuts
      /\ q.op = "cut" => q \in Cuts
  BY <1>2, RequestShape
<1>4. /\ KeysGuard' /\ acted' \in [Requests -> Nat] /\ UNCHANGED memory
      /\ session' \in [Sessions -> SessionStates]
  BY <1>1, CommitStep DEF IInv
<1>5. /\ session'[s].at # "locked" /\ \A t \in Sessions \ {s} : session'[t] = session[t]
      /\ acted'[q] > 0 /\ \A p \in Requests : acted'[p] >= acted[p]
  BY <1>1, CommitStep DEF IInv
<1> DEFINE Stock == /\ product' \in Nat /\ part' \in [good : Nat, bad : Nat]
                    /\ books' \in [good : Int, bad : Int, returned : [Returns -> Nat]]
           Rest == /\ verdict' \in [Returns -> Verdicts] /\ tracked' \subseteq Returns
                   /\ log' \in [cut : SUBSET Cuts, undone : SUBSET Cuts, approved : SUBSET Requests]
           Even == /\ part'.good - part.good = books'.good - books.good
                   /\ part'.bad - part.bad = books'.bad - books.bad
<1>6. ASSUME Stock, Rest, UndoHoldsPart', LockedWritersLoseNothing' PROVE IInv'
  BY <1>4, <1>6 DEF IInv, TypeOK, memory
<1>7. /\ product \in Nat /\ part \in [good : Nat, bad : Nat] /\ PerProduct \in Nat \ {0}
      /\ session[s].seen.product \in Nat /\ session[s].seen.part \in [good : Nat, bad : Nat]
      /\ verdict \in [Returns -> Verdicts] /\ tracked \subseteq Returns
      /\ log \in [cut : SUBSET Cuts, undone : SUBSET Cuts, approved : SUBSET Requests]
      /\ books \in [good : Int, bad : Int, returned : [Returns -> Nat]]
  BY <1>2, DeskAssumption DEF IInv, TypeOK, Snapshots
<1>8. ASSUME part' = part PROVE UndoHoldsPart'
  BY <1>5, <1>8, HolderStep DEF IInv
<1>9. ASSUME PartFree PROVE UndoHoldsPart'
  BY <1>5, <1>9, FreeStep
<1>10. ASSUME Stock, Even PROVE LockedWritersLoseNothing'
  BY <1>4, <1>5, <1>10, BooksMove DEF IInv
<1>11. CASE Confirm(s)
  <2>1. q.of \in Returns /\ part' = part /\ tracked' = tracked /\ log' = log
    BY <1>2, <1>3, <1>11 DEF Confirm, At
  <2>2. Stock /\ books'.good = books.good /\ books'.bad = books.bad
    <3>1. CASE session[s].seen.verdict = "yes"
      BY <2>1, <3>1, <1>7, <1>11 DEF Confirm
    <3>2. CASE session[s].seen.verdict # "yes"
      BY <2>1, <3>2, <1>7, <1>11 DEF Confirm
    <3> QED
      BY <3>1, <3>2
  <2>3. Rest
    BY <2>1, <1>7, <1>11 DEF Confirm, Verdicts
  <2>4. Even
    BY <2>1, <2>2, <1>7
  <2> QED
    BY <2>1, <2>2, <2>3, <2>4, <1>6, <1>8, <1>10
<1>12. CASE Damage(s)
  <2>1. UNCHANGED <<tracked, product, part, log, books>> /\ q.of \in Returns
    BY <1>2, <1>3, <1>12 DEF Damage, At
  <2>2. verdict' \in [Returns -> Verdicts]
    BY <2>1, <1>7, <1>12 DEF Damage, Verdicts
  <2>3. Even
    BY <2>1, <1>7
  <2> QED
    BY <2>1, <2>2, <2>3, <1>6, <1>7, <1>8, <1>10
<1>13. CASE Cut(s)
  <2>1. q \in Cuts /\ PartFree
    BY <1>2, <1>3, <1>13 DEF Cut, At
  <2>2. product' \in Nat /\ part' = [good |-> part.good + PerProduct, bad |-> part.bad]
    BY <1>7, <1>13 DEF Cut
  <2>3. /\ books' \in [good : Int, bad : Int, returned : [Returns -> Nat]]
        /\ books'.good = books.good + PerProduct /\ books'.bad = books.bad + 0
    <3>1. PerProduct \in Int /\ 0 \in Int /\ Move(PerProduct, 0)
      BY <1>7, <1>13 DEF Cut
    <3> QED
      BY <3>1, MoveTyped DEF IInv
  <2>4. Rest
    BY <2>1, <1>7, <1>13 DEF Cut
  <2>5. Stock
    BY <2>2, <2>3, <1>7
  <2>6. Even
    BY <2>2, <2>3, <1>7
  <2> QED
    BY <2>1, <2>4, <2>5, <2>6, <1>6, <1>9, <1>10
<1>14. CASE Undo(s)
  <2>1. q.op = "undo" /\ part.good >= PerProduct /\ q.of \in Cuts /\ session[s].seen.part = part
    BY <1>2, <1>3, <1>14 DEF Undo, IInv, UndoHoldsPart
  <2>2. UndoHoldsPart'
    <3>1. \A t \in Sessions : session'[t].at # "locked"
      BY <1>14, <1>5 DEF Undo, IInv, UndoHoldsPart
    <3> QED
      BY <3>1 DEF UndoHoldsPart
  <2>3. product' \in Nat /\ part' = [good |-> part.good - PerProduct, bad |-> part.bad]
    BY <1>14, <2>1, <1>7 DEF Undo
  <2>4. /\ books' \in [good : Int, bad : Int, returned : [Returns -> Nat]]
        /\ books'.good = books.good + (-PerProduct) /\ books'.bad = books.bad + 0
    <3>1. -PerProduct \in Int /\ 0 \in Int /\ Move(-PerProduct, 0)
      BY <1>7, <1>14 DEF Undo
    <3> QED
      BY <3>1, MoveTyped DEF IInv
  <2>5. Rest
    BY <2>1, <1>7, <1>14 DEF Undo
  <2>6. Stock
    BY <2>1, <2>3, <2>4, <1>7
  <2>7. Even
    BY <2>3, <2>4, <1>7
  <2> QED
    BY <2>2, <2>5, <2>6, <2>7, <1>6, <1>10
<1>15. CASE Defect(s) \/ Resolve(s)
  <2> DEFINE back == IF q.op = "repair" THEN 1 ELSE 0
  <2>1. PartFree /\ UNCHANGED <<verdict, tracked, product, log>>
    BY <1>15 DEF Defect, Resolve
  <2>2. part' \in [good : Nat, bad : Nat]
    BY <1>7, <1>15 DEF Defect, Resolve
  <2>3. books' \in [good : Int, bad : Int, returned : [Returns -> Nat]]
    <3>1. CASE Defect(s)
      <4>1. -1 \in Int /\ 1 \in Int /\ Move(-1, 1)
        BY <3>1 DEF Defect
      <4> QED
        BY <4>1, MoveTyped DEF IInv
    <3>2. CASE Resolve(s)
      <4>1. back \in Int /\ -1 \in Int /\ Move(back, -1)
        BY <3>2 DEF Resolve
      <4> QED
        BY <4>1, MoveTyped DEF IInv
    <3> QED
      BY <1>15, <3>1, <3>2
  <2>4. LockedWritersLoseNothing'
    <3>1. q.op \in Buttons /\ acted'[q] # 0
      BY <1>4, <1>5, <1>2, <1>15 DEF Defect, Resolve, At, Buttons
    <3> QED
      BY <3>1, <1>2 DEF LockedWritersLoseNothing
  <2> QED
    BY <2>1, <2>2, <2>3, <2>4, <1>6, <1>7, <1>9
<1>16. CASE Count(s)
  <2>1. PartFree /\ UNCHANGED <<verdict, tracked, product>> /\ q.n \in Nat
    BY <1>2, <1>3, <1>16 DEF Count
  <2>2. part' = [good |-> q.n, bad |-> part.bad]
    BY <2>1, <1>7, <1>16 DEF Count
  <2>3. /\ books' \in [good : Int, bad : Int, returned : [Returns -> Nat]]
        /\ books'.good = books.good + (q.n - part.good) /\ books'.bad = books.bad + 0
    <3>1. q.n - part.good \in Int /\ 0 \in Int /\ Move(q.n - part.good, 0)
      BY <2>1, <1>7, <1>16 DEF Count
    <3> QED
      BY <3>1, MoveTyped DEF IInv
  <2>4. Rest
    BY <2>1, <1>2, <1>7, <1>16 DEF Count
  <2>5. Stock
    BY <2>1, <2>2, <2>3, <1>7
  <2>6. Even
    BY <2>1, <2>2, <2>3, <1>7
  <2> QED
    BY <2>1, <2>4, <2>5, <2>6, <1>6, <1>9, <1>10
<1> QED
  BY <1>11, <1>12, <1>13, <1>14, <1>15, <1>16

(* IInv is inductive. *)
LEMMA StepHolds == ASSUME IInv, [Next]_vars PROVE IInv'
<1>1. CASE UNCHANGED vars
  BY <1>1 DEF vars, rows, memory, IInv, TypeOK, KeysGuard, UndoHoldsPart, ClickActsOnce,
     Active, Working, LockedWritersLoseNothing, PartsMatchLedger
<1>2. CASE Restart
  BY <1>2, RestartStep
<1>3. CASE Next /\ ~Restart
  <2> SUFFICES ASSUME NEW s \in Sessions,
                      \/ \E q \in Requests : Arrive(s, q)
                      \/ \E r \in Returns : Poll(s, r)
                      \/ Fail(s) \/ Answer(s) \/ FailAfterCommit(s) \/ Signed(s)
                      \/ Confirm(s) \/ Damage(s) \/ Cut(s) \/ LockUndo(s)
                      \/ Undo(s) \/ Defect(s) \/ Resolve(s) \/ Count(s)
               PROVE  IInv'
    BY <1>3 DEF Next
  <2> QED
    BY ArriveStep, QuietStep, FailStep, LockUndoStep, CommitsStep
<1> QED
  BY <1>1, <1>2, <1>3

(* Every reachable state satisfies the invariant. *)
THEOREM InvariantHolds == Spec => []IInv
<1> QED
  BY InitHolds, StepHolds, PTL DEF Spec

-----------------------------------------------------------------------------
(* What follows *)

(* The variables keep their types: no overlap of requests makes a quantity *)
(* negative, although the handlers compute with rows they read before.     *)
THEOREM TypeCorrect == Spec => []TypeOK
<1>1. IInv => TypeOK
  BY DEF IInv
<1> QED
  BY <1>1, InvariantHolds, PTL

(* The work of a click is committed once, and again only after its key was *)
(* forgotten (a restart, an error between commit and answer), for any      *)
(* number of sessions.                                                     *)
THEOREM ClickOnce == Spec => []ClickActsOnce
<1>1. IInv => ClickActsOnce
  BY DEF IInv, KeysGuard
<1> QED
  BY <1>1, InvariantHolds, PTL

(* Cuts, undos and counts lose no movement of the part, however many of    *)
(* them overlap, fail or are cut off by a restart, until the first use of  *)
(* a button for defects.                                                   *)
THEOREM LockedWritersKeepBooks == Spec => []LockedWritersLoseNothing
<1>1. IInv => LockedWritersLoseNothing
  BY DEF IInv
<1> QED
  BY <1>1, InvariantHolds, PTL

-----------------------------------------------------------------------------
(* Clicks that get no second chance *)

(* A key that the middleware remembers is that of a click under way, or of *)
(* one whose work was committed since the key was last forgotten.          *)
KeysHaveReason ==
    \A q \in keys : acted[q] > forgot[q] \/ \E s \in Sessions : Working(s) /\ session[s].req = q

(* A session that keeps its click, or has none; keys and commits rest.     *)
LEMMA ReasonKept ==
  ASSUME KeysHaveReason, NEW s \in Sessions, keys' = keys, acted' = acted, forgot' = forgot,
         Working(s) => Working(s)' /\ session'[s].req = session[s].req,
         \A t \in Sessions \ {s} : session'[t] = session[t]
  PROVE  KeysHaveReason'
<1>1. ASSUME NEW q, NEW t \in Sessions, Working(t), session[t].req = q
      PROVE  Working(t)' /\ session'[t].req = q
  BY <1>1 DEF Working
<1> QED
  BY <1>1 DEF KeysHaveReason

(* No step forgets why a key is remembered. *)
LEMMA ReasonStep == ASSUME IInv, KeysHaveReason, [Next]_vars PROVE KeysHaveReason'
<1>1. TypeOK /\ KeysGuard
  BY DEF IInv
<1>2. CASE UNCHANGED vars
  BY <1>2 DEF vars, rows, memory, KeysHaveReason, Working
<1>3. CASE Restart
  BY <1>3 DEF Restart, KeysHaveReason
<1>4. ASSUME NEW s \in Sessions, NEW q \in Requests, Arrive(s, q) PROVE KeysHaveReason'
  <2>1. /\ ~Working(s) /\ Working(s)' /\ session'[s].req = q /\ keys' = keys \cup {q}
        /\ acted' = acted /\ forgot' = forgot
        /\ \A t \in Sessions \ {s} : session'[t] = session[t]
    BY <1>1, <1>4 DEF Arrive, TypeOK, Working, Free, rows
  <2>2. ASSUME NEW t \in Sessions, Working(t) PROVE Working(t)' /\ session'[t].req = session[t].req
    BY <2>1, <2>2 DEF Working
  <2> QED
    BY <2>1, <2>2 DEF KeysHaveReason
<1>5. ASSUME NEW s \in Sessions, Fail(s) \/ FailAfterCommit(s) PROVE KeysHaveReason'
  <2>1. /\ keys' = keys \ {session[s].req} /\ acted' = acted
        /\ \A t \in Sessions \ {s} : session'[t] = session[t]
        /\ session[s].req \in Requests
        /\ \A q \in Requests \ {session[s].req} : forgot'[q] = forgot[q]
    <3>1. Active(s)
      BY <1>5 DEF Fail, FailAfterCommit, Active, Working
    <3>2. session[s].req \in Requests
      BY <1>1, <3>1, SessionShape
    <3> QED
      BY <1>1, <1>5, <3>2 DEF Fail, FailAfterCommit, TypeOK, rows
  <2>2. ASSUME NEW q \in keys', NEW t \in Sessions, Working(t), session[t].req = q
        PROVE  Working(t)' /\ session'[t].req = q
    BY <2>1, <2>2 DEF Working
  <2>3. \A q \in keys' : q \in keys /\ q \in Requests /\ q # session[s].req
    BY <1>1, <2>1 DEF TypeOK
  <2> QED
    BY <2>1, <2>2, <2>3 DEF KeysHaveReason
<1>6. ASSUME NEW s \in Sessions,
             Answer(s) \/ (\E r \in Returns : Poll(s, r)) \/ Signed(s) \/ LockUndo(s)
      PROVE  KeysHaveReason'
  <2>1. /\ keys' = keys /\ acted' = acted /\ forgot' = forgot
        /\ \A t \in Sessions \ {s} : session'[t] = session[t]
    BY <1>1, <1>6 DEF Answer, Poll, Signed, LockUndo, TypeOK, rows, memory
  <2>2. CASE Answer(s) \/ (\E r \in Returns : Poll(s, r)) \/ Signed(s)
    <3>1. ~Working(s)
      BY <2>2 DEF Answer, Poll, Signed, Working, Free
    <3> QED
      BY <2>1, <3>1, ReasonKept
  <2>3. CASE LockUndo(s)
    <3>1. session[s] \in [at : {"read", "locked"}, req : Requests, seen : Snapshots]
      <4>1. session[s] \in SessionStates /\ session[s].at = "read"
        BY <1>1, <2>3 DEF TypeOK, LockUndo, At
      <4> QED
        BY <4>1 DEF SessionStates
    <3>2. session'[s] = [at |-> "locked", req |-> session[s].req,
            seen |-> [session[s].seen EXCEPT !.product = product, !.part = part]]
      BY <1>1, <2>3 DEF TypeOK, LockUndo
    <3>3. session'[s].at = "locked" /\ session'[s].req = session[s].req
      BY <3>1, <3>2
    <3>4. Working(s)'
      BY <3>3 DEF Working
    <3> QED
      BY <2>1, <3>3, <3>4, ReasonKept
  <2> QED
    BY <1>6, <2>2, <2>3
<1>7. ASSUME NEW s \in Sessions,
             Confirm(s) \/ Damage(s) \/ Cut(s) \/ Undo(s) \/ Defect(s) \/ Resolve(s) \/ Count(s)
      PROVE  KeysHaveReason'
  <2>1. Working(s) /\ Commit(s)
    BY <1>7 DEF Confirm, Damage, Cut, Undo, Defect, Resolve, Count, At, Working
  <2>2. /\ session[s].req \in Requests /\ keys' = keys /\ forgot' = forgot
        /\ acted[session[s].req] = forgot[session[s].req]
    BY <1>1, <2>1, SessionShape DEF KeysGuard, Commit, Active, memory
  <2>3. /\ acted'[session[s].req] > forgot'[session[s].req]
        /\ \A q \in Requests \ {session[s].req} : acted'[q] = acted[q]
        /\ \A t \in Sessions \ {s} : session'[t] = session[t]
    BY <1>1, <2>1, <2>2 DEF Commit, TypeOK
  <2>4. ASSUME NEW q \in Requests \ {session[s].req}, NEW t \in Sessions, Working(t), session[t].req = q
        PROVE  Working(t)' /\ session'[t].req = q
    BY <2>3, <2>4 DEF Working
  <2> QED
    BY <1>1, <2>2, <2>3, <2>4 DEF KeysHaveReason, TypeOK
<1> QED
  BY <1>2, <1>3, <1>4, <1>5, <1>6, <1>7 DEF Next

(* KeysHaveReason: a click that failed before its commit is never taken    *)
(* for one that was made before, so that the user may try again, whatever  *)
(* the other sessions do; together with ClickActsOnce a remembered key is  *)
(* that of a click that must not act a second time.                        *)
THEOREM FailedClickMayRetry == Spec => []KeysHaveReason
<1>1. Init => KeysHaveReason
  BY DEF Init, KeysHaveReason
<1> QED
  BY <1>1, InvariantHolds, ReasonStep, PTL DEF Spec

=============================================================================
