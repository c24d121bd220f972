------------------------ MODULE SheetDelivery_proofs ------------------------
(***************************************************************************)
(* Proofs about SheetDelivery for any number of workers, callers, lines,   *)
(* restarts and any limit: the types; at most one picture in each          *)
(* generation of a line as long as no order is activated or no two calls   *)
(* of the reconciliation overlap; and with neither assumption one number   *)
(* per line, one explanation of its quantity, no more withdrawals of it    *)
(* than calls overlap, and no line left on its way but by a restart.       *)
(***************************************************************************)
EXTENDS SheetDelivery, FiniteSetTheorems, TLAPS

EvidenceType == [line : Lines, no : Nat, activated : BOOLEAN, superseded : BOOLEAN]

LineType ==
    [state : FreeStates \cup {"rendering", "sending_image", "sent", "uncertain"},
     no : Nat, msg : BOOLEAN]

QuestionStates ==
    {"none", "asking", "awaiting_reply", "ask_uncertain", "confirmed", "held", "claimed",
     "explained"}

WorkerType ==
    [at : Steps, todo : SUBSET Lines, due : SUBSET Lines, on : Lines \cup {None},
     known : SUBSET EvidenceType, no : Nat, tries : Nat]

OrderType == [refunded : BOOLEAN, hold : {"normal", "remote", "activated"}, edited : BOOLEAN]

GroupType == [sheets : Nat, nos : SUBSET Nat, voids : Nat, replies : Nat]

(* A worker that has picked a line has one in hand. *)
HandSteps == {"void_card", "void_answered", "claimed", "render", "ask", "card", "send", "answered",
              "unanswered", "explain", "reply"}

HasLine == \A w \in Workers : worker[w].at \in HandSteps => worker[w].on \in Lines

TInv == TypeOK /\ HasLine

-----------------------------------------------------------------------------
(* Numbers *)

(* A finite, non-empty set of numbers has a maximum, which Max chooses.    *)
LEMMA MaxExists ==
  ASSUME NEW S, S \subseteq Int, IsFiniteSet(S), S # {}
  PROVE  Max(S) \in S /\ \A y \in S : Max(S) >= y
<1> DEFINE above(x) == {y \in S : y > x}
           T == {above(x) : x \in S}
<1>1. PICK A \in T : \A B \in T : ~(<<B, A>> \in StrictSubsetOrdering(S))
  <2>1. T \subseteq FiniteSubsetsOf(S) /\ T # {}
    <3>1. FiniteSubsetsOf(S) = SUBSET S
      BY FS_FiniteSubsetsOfFinite
    <3>2. \A x \in S : above(x) \in SUBSET S
      OBVIOUS
    <3>3. T \subseteq SUBSET S
      BY <3>2
    <3>4. PICK x \in S : TRUE
      OBVIOUS
    <3>5. above(x) \in T
      BY <3>4
    <3> QED
      BY <3>1, <3>3, <3>5
  <2> HIDE DEF T
  <2> QED
    BY <2>1, FS_StrictSubsetOrderingWellFounded, WFMin
<1>2. PICK m \in S : A = above(m)
  BY <1>1
<1>3. \A y \in S : m >= y
  <2>1. SUFFICES ASSUME NEW y \in S, y > m PROVE FALSE
    OBVIOUS
  <2>2. above(y) \in T /\ above(y) \subseteq S /\ above(m) \subseteq S
    OBVIOUS
  <2>3. above(y) \subseteq above(m) /\ above(y) # above(m)
    <3>1. y \in Int /\ m \in Int /\ y > m
      BY <2>1
    <3>2. ASSUME NEW z \in above(y) PROVE z \in above(m)
      BY <3>1
    <3>3. y \in above(m) /\ y \notin above(y)
      BY <3>1
    <3> QED
      BY <3>2, <3>3
  <2>4. <<above(y), above(m)>> \in StrictSubsetOrdering(S)
    <3>1. ASSUME NEW a \in SUBSET S, NEW b \in SUBSET S, a \subseteq b, a # b
          PROVE  <<a, b>> \in StrictSubsetOrdering(S)
      BY <3>1 DEF StrictSubsetOrdering
    <3>2. above(y) \in SUBSET S /\ above(m) \in SUBSET S
      BY <2>2
    <3> HIDE DEF above
    <3> QED
      BY <2>3, <3>1, <3>2, Zenon
  <2> QED
    BY <1>1, <1>2, <2>2, <2>4
<1> QED
  BY <1>3 DEF Max

(* The next number is a number, and no line without one has it. *)
LEMMA NextNoTyped == ASSUME TypeOK PROVE NextNo \in Nat \ {0}
<1> DEFINE f == [l \in Lines |-> line[l].no]
<1>1. \A l \in Lines : line[l].no \in Nat
  BY DEF TypeOK
<1>2. Numbers \subseteq Nat
  BY <1>1 DEF Numbers
<1>3. IsFiniteSet(Numbers)
  <2>1. f \in Surjection(Lines, Numbers)
    BY DEF Surjection, Numbers
  <2> QED
    BY <2>1, FS_Surjection, SheetAssumption
<1>4. IsFiniteSet(Numbers \cup {0})
  BY <1>3, FS_AddElement
<1>5. Max(Numbers \cup {0}) \in Numbers \cup {0}
  <2>1. Numbers \cup {0} \subseteq Int /\ Numbers \cup {0} # {}
    BY <1>2
  <2> QED
    BY <1>4, <2>1, MaxExists
<1> DEFINE m == Max(Numbers \cup {0})
<1>6. m \in Numbers \cup {0}
  BY <1>5
<1>7. NextNo = m + 1
  BY DEF NextNo
<1> HIDE DEF m
<1>8. m \in Nat
  BY <1>2, <1>6
<1> QED
  BY <1>7, <1>8

-----------------------------------------------------------------------------
(* What a step does to the worker that takes it *)

(* The worker is x afterwards and the others stay. *)
Becomes(w, x) ==
    /\ worker' \in [Workers -> WorkerType]
    /\ worker'[w] = x
    /\ \A v \in Workers \ {w} : worker'[v] = worker[v]

LEMMA SetWorker ==
  ASSUME TypeOK, NEW w \in Workers, NEW x \in WorkerType, worker' = [worker EXCEPT ![w] = x]
  PROVE  Becomes(w, x)
BY DEF TypeOK, WorkerType, EvidenceType, Becomes

(* Only where the worker is changes. *)
Moved(w, step) == worker' = [worker EXCEPT ![w].at = step]

LEMMA GoesTo ==
  ASSUME TypeOK, NEW w \in Workers, NEW step \in Steps, Moved(w, step)
  PROVE  Becomes(w, [worker[w] EXCEPT !.at = step])
<1>1. worker \in [Workers -> WorkerType] /\ worker' = [worker EXCEPT ![w].at = step]
  BY DEF TypeOK, WorkerType, EvidenceType, Moved
<1>2. [worker[w] EXCEPT !.at = step] \in WorkerType
  BY <1>1 DEF WorkerType
<1> QED
  BY <1>1, <1>2, SetWorker

(* The line in hand counts. *)
Counted(w, step) == worker' = [worker EXCEPT ![w].at = step, ![w].tries = @ + 1]

(* It is done: back to the loop. *)
Done(w) == Counted(w, "lines")

LEMMA GoesOn ==
  ASSUME TypeOK, NEW w \in Workers, NEW step \in Steps, Counted(w, step)
  PROVE  Becomes(w, [worker[w] EXCEPT !.at = step, !.tries = worker[w].tries + 1])
<1>1. worker \in [Workers -> WorkerType]
  BY DEF TypeOK, WorkerType, EvidenceType
<1>2. [worker[w] EXCEPT !.at = step, !.tries = worker[w].tries + 1] \in WorkerType
  <2>1. worker[w] \in WorkerType
    BY <1>1
  <2>2. worker[w].tries \in Nat
    BY <2>1 DEF WorkerType
  <2>3. worker[w].tries + 1 \in Nat
    BY <2>2
  <2> QED
    BY <2>1, <2>3 DEF WorkerType
<1>3. worker' = [worker EXCEPT ![w] = [worker[w] EXCEPT !.at = step,
                                                        !.tries = worker[w].tries + 1]]
  BY <1>1 DEF Counted
<1> QED
  BY <1>2, <1>3, SetWorker

(* An explanation is done: back to where it was taken up. *)
Back(w, l) == IF l \in worker[w].due THEN "receipts" ELSE "lines"

LEMMA Returns ==
  ASSUME TypeOK, NEW w \in Workers, NEW l, Return(w, l)
  PROVE  Becomes(w, [worker[w] EXCEPT !.at = Back(w, l), !.due = worker[w].due \ {l}])
<1> DEFINE x == [worker[w] EXCEPT !.at = Back(w, l), !.due = worker[w].due \ {l}]
<1>1. worker \in [Workers -> WorkerType]
  BY DEF TypeOK, WorkerType, EvidenceType
<1>2. x \in WorkerType
  BY <1>1 DEF WorkerType, Steps, Back
<1>3. worker' = [worker EXCEPT ![w] = x]
  BY <1>1 DEF Return, Back
<1> QED
  BY <1>2, <1>3, SetWorker

(* A line is taken in hand: its number, or the next one. *)
LEMMA TakesLine ==
  ASSUME TypeOK, NEW w \in Workers, NEW l \in Lines, Claim(w, l)
  PROVE  Becomes(w, [worker[w] EXCEPT !.at = "claimed", !.on = l, !.todo = worker[w].todo \ {l},
                       !.no = IF line[l].no = 0 THEN NextNo ELSE line[l].no])
<1> DEFINE x == [worker[w] EXCEPT !.at = "claimed", !.on = l, !.todo = worker[w].todo \ {l},
                   !.no = IF line[l].no = 0 THEN NextNo ELSE line[l].no]
<1>1. worker \in [Workers -> WorkerType] /\ line[l].no \in Nat
  BY DEF TypeOK, WorkerType, EvidenceType
<1>2. (IF line[l].no = 0 THEN NextNo ELSE line[l].no) \in Nat
  BY <1>1, NextNoTyped
<1>3. x \in WorkerType
  BY <1>1, <1>2 DEF WorkerType, Steps
<1>4. worker' = [worker EXCEPT ![w] = x]
  BY <1>1 DEF Claim
<1> QED
  BY <1>3, <1>4, SetWorker

(* A worker that stands at the beginning of a call. *)
LEMMA Starts ==
  ASSUME TypeOK, NEW w \in Workers, NEW step \in Steps, NEW todo \in SUBSET Lines,
         NEW known \in SUBSET EvidenceType,
         worker' = [worker EXCEPT ![w] = [Idle EXCEPT !.at = step, !.todo = todo, !.known = known]]
  PROVE  Becomes(w, [Idle EXCEPT !.at = step, !.todo = todo, !.known = known])
<1>1. [Idle EXCEPT !.at = step, !.todo = todo, !.known = known] \in WorkerType
  BY DEF Idle, WorkerType, Steps
<1> QED
  BY <1>1, SetWorker

-----------------------------------------------------------------------------
(* Types *)

(* The tables, without the workers. *)
TablesTyped ==
    /\ order \in [Lines -> OrderType]
    /\ line \in [Lines -> LineType]
    /\ sent \subseteq EvidenceType
    /\ void \in [Lines -> {"none", "unknown", "sent"}]
    /\ question \in [Lines -> QuestionStates]
    /\ verified \subseteq Lines
    /\ group \in [Lines -> GroupType]
    /\ crashes \in 0..MaxCrashes

(* A step of one worker that keeps the tables typed. *)
LEMMA KeepsTypes ==
  ASSUME TInv, NEW w \in Workers, NEW x \in WorkerType, Becomes(w, x),
         x.at \in HandSteps => x.on \in Lines, TablesTyped'
  PROVE  TInv'
BY DEF TInv, TypeOK, HasLine, Becomes, TablesTyped, WorkerType, EvidenceType, LineType,
   QuestionStates, OrderType, GroupType

(* What is known of the worker that takes a step *)
LEMMA WorkerShape ==
  ASSUME TInv, NEW w \in Workers
  PROVE  /\ worker \in [Workers -> WorkerType] /\ worker[w] \in WorkerType
         /\ worker[w].todo \subseteq Lines
         /\ worker[w].at \in HandSteps => worker[w].on \in Lines
         /\ TablesTyped
BY DEF TInv, TypeOK, HasLine, TablesTyped, WorkerType, EvidenceType, LineType, QuestionStates,
   OrderType, GroupType

(* A step only to another place. *)
LEMMA MovesTyped ==
  ASSUME TInv, NEW w \in Workers, NEW step \in Steps, Moved(w, step),
         step \in HandSteps => worker[w].on \in Lines, TablesTyped'
  PROVE  TInv'
<1> DEFINE x == [worker[w] EXCEPT !.at = step]
<1>1. x \in WorkerType /\ x.at = step /\ x.on = worker[w].on
  BY WorkerShape DEF WorkerType
<1>2. Becomes(w, x)
  BY GoesTo DEF TInv
<1> HIDE DEF x
<1> QED
  BY <1>1, <1>2, KeepsTypes

(* The line in hand counts. *)
LEMMA CountTyped ==
  ASSUME TInv, NEW w \in Workers, NEW step \in Steps, TablesTyped', Counted(w, step),
         step \in HandSteps => worker[w].on \in Lines
  PROVE  TInv'
<1> DEFINE x == [worker[w] EXCEPT !.at = step, !.tries = worker[w].tries + 1]
<1>1. Becomes(w, x)
  BY GoesOn DEF TInv
<1>2. x \in WorkerType /\ x.at = step /\ x.on = worker[w].on
  <2>1. x \in WorkerType
    BY <1>1 DEF Becomes
  <2>2. worker[w] \in WorkerType
    BY WorkerShape
  <2> QED
    BY <2>1, <2>2 DEF WorkerType
<1> HIDE DEF x
<1> QED
  BY <1>1, <1>2, KeepsTypes

LEMMA DoneTyped == ASSUME TInv, NEW w \in Workers, TablesTyped', Done(w) PROVE TInv'
<1>1. "lines" \in Steps /\ "lines" \notin HandSteps
  BY DEF Steps, HandSteps
<1> QED
  BY <1>1, CountTyped DEF Done

(* An explanation is done. *)
LEMMA ReturnTyped == ASSUME TInv, NEW w \in Workers, NEW l, TablesTyped', Return(w, l) PROVE TInv'
<1> DEFINE x == [worker[w] EXCEPT !.at = Back(w, l), !.due = worker[w].due \ {l}]
<1>1. Becomes(w, x)
  BY Returns DEF TInv
<1>2. x \in WorkerType /\ x.at \notin HandSteps
  <2>1. x \in WorkerType
    BY <1>1 DEF Becomes
  <2>2. worker[w] \in WorkerType
    BY WorkerShape
  <2> QED
    BY <2>1, <2>2 DEF WorkerType, Back, HandSteps
<1> HIDE DEF x
<1> QED
  BY <1>1, <1>2, KeepsTypes

(* Calls begin. *)
LEMMA BeginTyped ==
  ASSUME TInv, NEW w \in Workers,
         \/ Start(w) \/ Supersede(w)
         \/ \E scope \in SUBSET Lines \ {{}} : Resume(w, scope)
         \/ \E l \in Lines : Reply(w, l)
  PROVE  TInv'
<1>1. TablesTyped /\ worker[w] \in WorkerType
  BY WorkerShape
<1>2. CASE Start(w)
  <2> DEFINE stale == {l \in SentLines : \A e \in Evidence(l) : ~e.activated}
             x == [Idle EXCEPT !.at = "supersede", !.todo = stale,
                               !.known = UNION {Evidence(l) : l \in stale}]
  <2>1. worker' = [worker EXCEPT ![w] = x] /\ TablesTyped'
    BY <1>1, <1>2 DEF Start, Begin, TablesTyped, tables
  <2>2. stale \in SUBSET Lines /\ UNION {Evidence(l) : l \in stale} \in SUBSET EvidenceType
    BY <1>1 DEF SentLines, Evidence, TablesTyped
  <2> HIDE DEF stale
  <2>3. x \in WorkerType /\ x.at = "supersede"
    BY <2>2 DEF Idle, WorkerType, Steps
  <2>4. Becomes(w, x)
    BY <2>1, <2>3, SetWorker DEF TInv
  <2> QED
    BY <2>1, <2>3, <2>4, KeepsTypes DEF HandSteps
<1>3. CASE Supersede(w)
  <2> DEFINE x == [Idle EXCEPT !.at = "refunds"]
  <2>1. x \in WorkerType /\ x.at = "refunds" /\ Becomes(w, x)
    <3>1. x \in WorkerType /\ x.at = "refunds"
      BY DEF Idle, WorkerType, Steps
    <3>2. worker' = [worker EXCEPT ![w] = x]
      BY <1>3 DEF Supersede
    <3> QED
      BY <3>1, <3>2, SetWorker DEF TInv
  <2>2. line' \in [Lines -> LineType]
    <3>1. NewLine \in LineType
      BY DEF NewLine, LineType, FreeStates
    <3> QED
      BY <1>1, <1>3, <3>1 DEF Supersede, TablesTyped
  <2>3. sent' \subseteq EvidenceType
    <3>1. \A e \in sent : e \in EvidenceType /\ [e EXCEPT !.superseded = TRUE] \in EvidenceType
      BY <1>1 DEF TablesTyped, EvidenceType
    <3> QED
      BY <1>3, <3>1 DEF Supersede
  <2>4. TablesTyped'
    BY <1>1, <1>3, <2>2, <2>3 DEF Supersede, TablesTyped
  <2> QED
    BY <2>1, <2>4, KeepsTypes DEF HandSteps
<1>4. ASSUME NEW scope \in SUBSET Lines, Resume(w, scope) PROVE TInv'
  <2> DEFINE todo == {l \in scope \ SentLines : Free(l) /\ Eligible(l)}
             x == [Idle EXCEPT !.at = "pending", !.todo = todo]
  <2>1. worker' = [worker EXCEPT ![w] = x] /\ TablesTyped'
    BY <1>1, <1>4 DEF Resume, Begin, TablesTyped, tables
  <2>2. todo \in SUBSET Lines
    OBVIOUS
  <2> HIDE DEF todo
  <2>3. x \in WorkerType /\ x.at = "pending"
    BY <2>2 DEF Idle, WorkerType, Steps
  <2>4. Becomes(w, x)
    BY <2>1, <2>3, SetWorker DEF TInv
  <2> QED
    BY <2>1, <2>3, <2>4, KeepsTypes DEF HandSteps
<1>5. ASSUME NEW l \in Lines, Reply(w, l) PROVE TInv'
  <2>1. TablesTyped'
    BY <1>1, <1>5 DEF Reply, TablesTyped, QuestionStates
  <2>2. CASE Begin(w, [Idle EXCEPT !.at = "pending", !.todo = {l}])
    <3> DEFINE x == [Idle EXCEPT !.at = "pending", !.todo = {l}]
    <3>1. worker' = [worker EXCEPT ![w] = x]
      BY <2>2 DEF Begin
    <3>2. x \in WorkerType /\ x.at = "pending"
      BY DEF Idle, WorkerType, Steps
    <3>3. Becomes(w, x)
      BY <3>1, <3>2, SetWorker DEF TInv
    <3> QED
      BY <2>1, <3>2, <3>3, KeepsTypes DEF HandSteps
  <2>3. CASE worker' = worker
    BY <2>1, <2>3 DEF TInv, TypeOK, HasLine, TablesTyped, LineType, EvidenceType, QuestionStates,
       OrderType, GroupType
  <2> QED
    BY <1>5, <2>2, <2>3 DEF Reply
<1> QED
  BY <1>2, <1>3, <1>4, <1>5

(* Withdrawals *)
LEMMA VoidTyped ==
  ASSUME TInv, NEW w \in Workers, VoidStep(w) \/ \E l \in Lines : ArchiveVoid(w, l) PROVE TInv'
<1>1. /\ TablesTyped /\ worker \in [Workers -> WorkerType] /\ worker[w] \in WorkerType
      /\ worker[w].todo \subseteq Lines /\ (worker[w].at \in HandSteps => worker[w].on \in Lines)
  BY WorkerShape
<1>2. CASE ReadRefunds(w)
  <2> DEFINE todo == Lowest({l \in SentLines : order[l].refunded /\ void[l] = "none"})
             x == [worker[w] EXCEPT !.at = "void", !.todo = todo]
  <2>1. worker' = [worker EXCEPT ![w] = x] /\ TablesTyped'
    BY <1>1, <1>2 DEF ReadRefunds, TablesTyped, tables
  <2>2. todo \subseteq Lines
    BY DEF Lowest, SentLines
  <2> HIDE DEF todo
  <2>3. x \in WorkerType /\ x.at = "void"
    BY <1>1, <2>2 DEF WorkerType, Steps
  <2>4. Becomes(w, x)
    BY <2>1, <2>3, SetWorker DEF TInv
  <2> QED
    BY <2>1, <2>3, <2>4, KeepsTypes DEF HandSteps
<1>3. ASSUME NEW l \in Lines, VoidFails(w, l) \/ ArchiveVoid(w, l) PROVE TInv'
  <2>1. PICK x \in WorkerType : /\ worker' = [worker EXCEPT ![w] = x]
                                /\ x.at = "void" \/ x.on = l
    <3> DEFINE y == [worker[w] EXCEPT !.todo = worker[w].todo \ {l}]
               z == [worker[w] EXCEPT !.at = "void_card", !.on = l, !.todo = worker[w].todo \ {l}]
    <3>1. y \in WorkerType /\ z \in WorkerType /\ z.on = l /\ y.at = worker[w].at
      BY <1>1 DEF WorkerType, Steps
    <3>2. CASE VoidFails(w, l)
      <4>1. worker' = [worker EXCEPT ![w] = y] /\ y.at = "void"
        BY <1>1, <3>1, <3>2 DEF VoidFails
      <4> QED
        BY <3>1, <4>1
    <3>3. CASE ArchiveVoid(w, l)
      <4>1. worker' = [worker EXCEPT ![w] = z]
        BY <1>1, <3>3 DEF ArchiveVoid
      <4> QED
        BY <3>1, <4>1
    <3> QED
      BY <1>3, <3>2, <3>3
  <2>2. TablesTyped'
    BY <1>1, <1>3 DEF VoidFails, ArchiveVoid, TablesTyped, tables
  <2>3. Becomes(w, x)
    BY <2>1, SetWorker DEF TInv
  <2> QED
    BY <2>1, <2>2, <2>3, KeepsTypes DEF HandSteps
<1>4. CASE SendVoid(w)
  <2>1. PICK step \in {"void_answered", "void"} : Moved(w, step)
    BY <1>4 DEF SendVoid, Moved
  <2>2. group' \in [Lines -> GroupType]
    <3> DEFINE l == worker[w].on
    <3>1. group[l].voids \in Nat /\ l \in Lines
      BY <1>1, <1>4 DEF SendVoid, TablesTyped, HandSteps, GroupType
    <3>2. group[l].voids + 1 \in Nat
      BY <3>1
    <3>3. group' = group \/ group' = [group EXCEPT ![l].voids = group[l].voids + 1]
      BY <1>4 DEF SendVoid
    <3> HIDE DEF l
    <3> QED
      BY <1>1, <3>1, <3>2, <3>3 DEF TablesTyped, GroupType
  <2>3. TablesTyped' /\ worker[w].on \in Lines
    BY <1>1, <1>4, <2>2 DEF SendVoid, TablesTyped, tables, HandSteps
  <2> QED
    BY <2>1, <2>3, MovesTyped DEF Steps
<1>5. CASE RecordVoid(w)
  <2>1. Moved(w, "void") /\ TablesTyped'
    BY <1>1, <1>5 DEF RecordVoid, Moved, TablesTyped
  <2> QED
    BY <2>1, MovesTyped DEF Steps, HandSteps
<1> QED
  BY <1>2, <1>3, <1>4, <1>5 DEF VoidStep

(* Lines *)
LEMMA LineTyped == ASSUME TInv, NEW w \in Workers, LineStep(w) PROVE TInv'
<1>1. /\ TablesTyped /\ worker \in [Workers -> WorkerType] /\ worker[w] \in WorkerType
      /\ worker[w].todo \subseteq Lines /\ (worker[w].at \in HandSteps => worker[w].on \in Lines)
  BY WorkerShape
<1>2. CASE ReadLines(w)
  <2> DEFINE todo == {l \in worker[w].todo \ SentLines : Eligible(l)}
             x == [worker[w] EXCEPT !.at = "lines", !.on = None, !.todo = todo]
  <2>1. worker' = [worker EXCEPT ![w] = x] /\ TablesTyped'
    BY <1>1, <1>2 DEF ReadLines, TablesTyped, tables
  <2>2. todo \subseteq Lines
    BY <1>1
  <2> HIDE DEF todo
  <2>3. x \in WorkerType /\ x.at = "lines"
    BY <1>1, <2>2 DEF WorkerType, Steps
  <2>4. Becomes(w, x)
    BY <2>1, <2>3, SetWorker DEF TInv
  <2> QED
    BY <2>1, <2>3, <2>4, KeepsTypes DEF HandSteps
<1>12. CASE ReadReceipts(w)
  <2> DEFINE scope == IF w \in Callers THEN Lines ELSE worker[w].todo
             due == {l \in scope : Due(l)}
             x == [worker[w] EXCEPT !.at = "receipts", !.todo = scope, !.due = due]
  <2>1. worker' = [worker EXCEPT ![w] = x] /\ TablesTyped'
    BY <1>1, <1>12 DEF ReadReceipts, TablesTyped, tables
  <2>2. scope \subseteq Lines /\ due \subseteq Lines
    BY <1>1
  <2> HIDE DEF scope, due
  <2>3. x \in WorkerType /\ x.at = "receipts"
    BY <1>1, <2>2 DEF WorkerType, Steps
  <2>4. Becomes(w, x)
    BY <2>1, <2>3, SetWorker DEF TInv
  <2> QED
    BY <2>1, <2>3, <2>4, KeepsTypes DEF HandSteps
<1>13. ASSUME NEW l \in Lines, ClaimReply(w, l) PROVE TInv'
  <2>1. TablesTyped'
    BY <1>1, <1>13 DEF ClaimReply, TablesTyped, QuestionStates
  <2>2. CASE Return(w, l)
    BY <2>1, <2>2, ReturnTyped
  <2>3. CASE worker' = [worker EXCEPT ![w].at = "reply", ![w].on = l]
    <3> DEFINE x == [worker[w] EXCEPT !.at = "reply", !.on = l]
    <3>1. x \in WorkerType /\ x.on = l
      BY <1>1 DEF WorkerType, Steps
    <3>2. worker' = [worker EXCEPT ![w] = x]
      BY <1>1, <2>3
    <3>3. Becomes(w, x)
      BY <3>1, <3>2, SetWorker DEF TInv
    <3> QED
      BY <2>1, <3>1, <3>3, KeepsTypes
  <2> QED
    BY <1>13, <2>2, <2>3 DEF ClaimReply
<1>14. CASE SendReply(w)
  <2> DEFINE l == worker[w].on
  <2>1. l \in Lines /\ group[l].replies \in Nat
    BY <1>1, <1>14 DEF SendReply, TablesTyped, HandSteps, GroupType
  <2>2. group[l].replies + 1 \in Nat
    BY <2>1
  <2>3. group' \in [Lines -> GroupType]
    <3>1. group' = group \/ group' = [group EXCEPT ![l].replies = group[l].replies + 1]
      BY <1>14 DEF SendReply
    <3> HIDE DEF l
    <3> QED
      BY <1>1, <2>1, <2>2, <3>1 DEF TablesTyped, GroupType
  <2>4. question' \in [Lines -> QuestionStates]
    BY <1>1, <1>14 DEF SendReply, TablesTyped, QuestionStates
  <2>5. TablesTyped' /\ Return(w, l)
    BY <1>1, <1>14, <2>3, <2>4 DEF SendReply, TablesTyped
  <2> QED
    BY <2>5, ReturnTyped
<1>3. ASSUME NEW l \in Lines, Skip(w, l) PROVE TInv'
  <2>1. TablesTyped' /\ worker[w].at = "lines"
    BY <1>1, <1>3 DEF Skip, Visits, TablesTyped, tables
  <2>2. PICK n \in {0, 1} : Pass(w, l, n)
    BY <1>3 DEF Skip
  <2> DEFINE x == [worker[w] EXCEPT !.todo = worker[w].todo \ {l}, !.tries = worker[w].tries + n]
  <2>3. worker' = [worker EXCEPT ![w] = x]
    BY <1>1, <2>2 DEF Pass
  <2>4. x \in WorkerType /\ x.at = "lines"
    <3>1. worker[w].tries \in Nat
      BY <1>1 DEF WorkerType
    <3>2. worker[w].tries + n \in Nat
      BY <3>1
    <3> QED
      BY <1>1, <2>1, <3>2 DEF WorkerType
  <2>5. Becomes(w, x)
    BY <2>3, <2>4, SetWorker DEF TInv
  <2> QED
    BY <2>1, <2>4, <2>5, KeepsTypes DEF HandSteps
<1>4. ASSUME NEW l \in Lines, Claim(w, l) PROVE TInv'
  <2> DEFINE x == [worker[w] EXCEPT !.at = "claimed", !.on = l, !.todo = worker[w].todo \ {l},
                     !.no = IF line[l].no = 0 THEN NextNo ELSE line[l].no]
  <2>1. Becomes(w, x)
    BY <1>4, TakesLine DEF TInv
  <2>2. x \in WorkerType /\ x.on = l
    <3>1. worker'[w] \in WorkerType
      BY <2>1 DEF Becomes
    <3> QED
      BY <1>1, <2>1, <3>1 DEF Becomes, WorkerType
  <2>3. TablesTyped'
    BY <1>1, <1>4 DEF Claim, TablesTyped, tables
  <2> QED
    BY <2>1, <2>2, <2>3, KeepsTypes
<1>5. CASE CommitClaim(w)
  <2>1. CASE worker' = [worker EXCEPT ![w] = Idle] /\ line' = line
    <3>1. Becomes(w, Idle) /\ Idle \in WorkerType /\ Idle.at = "idle"
      <4>1. Idle \in WorkerType /\ Idle.at = "idle"
        BY DEF Idle, WorkerType, Steps
      <4> QED
        BY <2>1, <4>1, SetWorker DEF TInv
    <3>2. TablesTyped'
      BY <1>1, <1>5, <2>1 DEF CommitClaim, TablesTyped
    <3> QED
      BY <3>1, <3>2, KeepsTypes DEF HandSteps
  <2>2. CASE Moved(w, "render") /\
             line' = [line EXCEPT ![worker[w].on] = [state |-> "rendering", no |-> worker[w].no,
                                                     msg |-> FALSE]]
    <3>1. [state |-> "rendering", no |-> worker[w].no, msg |-> FALSE] \in LineType
      BY <1>1 DEF LineType, WorkerType
    <3>2. TablesTyped' /\ worker[w].on \in Lines
      BY <1>1, <1>5, <2>2, <3>1 DEF CommitClaim, TablesTyped, HandSteps
    <3> QED
      BY <2>2, <3>2, MovesTyped DEF Steps
  <2> QED
    BY <1>5, <2>1, <2>2 DEF CommitClaim, Moved
<1>6. CASE MarkSending(w) \/ RenderFails(w)
  <2>1. line' \in [Lines -> LineType]
    <3>1. worker[w].on \in Lines /\ line \in [Lines -> LineType]
      BY <1>1, <1>6 DEF MarkSending, RenderFails, TablesTyped, HandSteps
    <3>2. \E s \in {"sending_image", "failed"} : line' = [line EXCEPT ![worker[w].on].state = s]
      BY <1>6 DEF MarkSending, RenderFails
    <3> QED
      BY <3>1, <3>2 DEF LineType, FreeStates
  <2>2. TablesTyped' /\ worker[w].on \in Lines
    BY <1>1, <1>6, <2>1 DEF MarkSending, RenderFails, TablesTyped, HandSteps
  <2>3. (\E step \in {"send", "ask"} : Moved(w, step)) \/ Done(w)
    BY <1>6 DEF MarkSending, RenderFails, Moved, Done, Counted
  <2> QED
    BY <2>2, <2>3, MovesTyped, DoneTyped DEF Steps
<1>7. CASE Ask(w) \/ SendCard(w)
  <2>1. question' \in [Lines -> QuestionStates]
    BY <1>1, <1>7 DEF Ask, SendCard, TablesTyped, QuestionStates
  <2>2. TablesTyped' /\ worker[w].on \in Lines
    BY <1>1, <1>7, <2>1 DEF Ask, SendCard, TablesTyped, HandSteps
  <2>3. Moved(w, "card") \/ Done(w)
    BY <1>7 DEF Ask, SendCard, Moved, Done, Counted
  <2> QED
    BY <2>2, <2>3, MovesTyped, DoneTyped DEF Steps
<1>8. CASE SendImage(w)
  <2>1. PICK step \in {"answered", "unanswered"} : Moved(w, step)
    BY <1>8 DEF SendImage, Moved
  <2>2. worker[w].no \in Nat /\ worker[w].on \in Lines
    BY <1>1, <1>8 DEF SendImage, WorkerType, HandSteps
  <2>3. group' \in [Lines -> GroupType]
    BY <1>1, <1>8, <2>2 DEF SendImage, TablesTyped, GroupType
  <2>4. TablesTyped'
    BY <1>1, <1>8, <2>3 DEF SendImage, TablesTyped, tables
  <2> QED
    BY <2>1, <2>2, <2>4, MovesTyped DEF Steps
<1>9. CASE Record(w)
  <2> DEFINE l == worker[w].on
             e == [line |-> l, no |-> line[l].no, activated |-> order[l].hold = "activated",
                   superseded |-> FALSE]
  <2>1. l \in Lines
    BY <1>1, <1>9 DEF Record, HandSteps
  <2>2. e \in EvidenceType
    BY <1>1, <2>1 DEF EvidenceType, TablesTyped, LineType
  <2>3. sent' = sent \cup {e}
    BY <1>9 DEF Record
  <2> HIDE DEF e
  <2>4. line' \in [Lines -> LineType]
    <3>1. line' = [line EXCEPT ![l].state = "sent", ![l].msg = TRUE] /\ line \in [Lines -> LineType]
      BY <1>1, <1>9 DEF Record, TablesTyped
    <3> QED
      BY <3>1 DEF LineType
  <2>5. sent' \subseteq EvidenceType
    BY <1>1, <2>2, <2>3 DEF TablesTyped
  <2>6. UNCHANGED <<order, void, question, verified, group, crashes>> /\ Counted(w, "explain")
    BY <1>9 DEF Record, Counted
  <2>7. TablesTyped'
    BY <1>1, <2>4, <2>5, <2>6 DEF TablesTyped
  <2> QED
    BY <2>1, <2>6, <2>7, CountTyped DEF Steps
<1>10. CASE SettleUnknown(w)
  <2>1. line' \in [Lines -> LineType]
    <3>1. /\ line' = [line EXCEPT ![worker[w].on].state = "uncertain"]
          /\ line \in [Lines -> LineType]
      BY <1>1, <1>10 DEF SettleUnknown, TablesTyped
    <3> QED
      BY <3>1 DEF LineType
  <2>2. UNCHANGED <<order, sent, void, question, verified, group, crashes>> /\ Done(w)
    BY <1>10 DEF SettleUnknown, Done, Counted
  <2>3. TablesTyped'
    BY <1>1, <2>1, <2>2 DEF TablesTyped
  <2> QED
    BY <2>2, <2>3, DoneTyped
<1>11. CASE Finish(w)
  <2>1. Becomes(w, Idle) /\ Idle \in WorkerType /\ Idle.at = "idle"
    <3>1. Idle \in WorkerType /\ Idle.at = "idle"
      BY DEF Idle, WorkerType, Steps
    <3> QED
      BY <1>11, <3>1, SetWorker DEF TInv, Finish
  <2>2. TablesTyped'
    BY <1>1, <1>11 DEF Finish, TablesTyped, tables
  <2> QED
    BY <2>1, <2>2, KeepsTypes DEF HandSteps
<1> QED
  BY <1>2, <1>3, <1>4, <1>5, <1>6, <1>7, <1>8, <1>9, <1>10, <1>11, <1>12, <1>13,
     <1>14 DEF LineStep

(* TInv is inductive. *)
LEMMA TypesInit == Init => TInv
<1> SUFFICES ASSUME Init PROVE TInv
  OBVIOUS
<1>1. /\ Idle \in WorkerType /\ Idle.at = "idle" /\ NewLine \in LineType
  BY DEF Idle, WorkerType, Steps, NewLine, LineType, FreeStates
<1>2. worker \in [Workers -> WorkerType] /\ \A w \in Workers : worker[w].at = "idle"
  BY <1>1 DEF Init
<1>3. TablesTyped
  BY <1>1, SheetAssumption DEF Init, TablesTyped, QuestionStates, OrderType, GroupType
<1> QED
  BY <1>2, <1>3 DEF TInv, TypeOK, HasLine, HandSteps, TablesTyped, WorkerType, EvidenceType,
     LineType, QuestionStates, OrderType, GroupType

LEMMA TypesStep == ASSUME TInv, [Next]_vars PROVE TInv'
<1>1. CASE UNCHANGED vars
  BY <1>1 DEF vars, tables, TInv, TypeOK, HasLine
<1>2. CASE Crash
  <2>1. Idle \in WorkerType /\ Idle.at = "idle"
    BY DEF Idle, WorkerType, Steps
  <2>2. worker' \in [Workers -> WorkerType] /\ \A w \in Workers : worker'[w].at = "idle"
    BY <1>2, <2>1 DEF Crash
  <2>3. TablesTyped
    BY DEF TInv, TypeOK, TablesTyped, EvidenceType, LineType, QuestionStates, OrderType,
       GroupType
  <2>4. TablesTyped'
    BY <1>2, <2>3, SheetAssumption DEF Crash, TablesTyped, tables
  <2> QED
    BY <2>2, <2>4 DEF TInv, TypeOK, HasLine, HandSteps, TablesTyped, WorkerType, EvidenceType,
       LineType, QuestionStates, OrderType, GroupType
<1>3. ASSUME NEW l \in Lines, ChangeOrder(l) PROVE TInv'
  <2>1. order' \in [Lines -> OrderType]
    <3>1. order \in [Lines -> OrderType]
      BY DEF TInv, TypeOK, OrderType
    <3>2. CASE order' = [order EXCEPT ![l].refunded = TRUE]
      BY <3>1, <3>2 DEF OrderType
    <3>3. CASE \E h \in {"remote", "activated"} : order' = [order EXCEPT ![l].hold = h]
      BY <3>1, <3>3 DEF OrderType
    <3>4. CASE order' = [order EXCEPT ![l].edited = ~order[l].edited]
      BY <3>1, <3>4 DEF OrderType
    <3> QED
      BY <1>3, <3>2, <3>3, <3>4 DEF ChangeOrder
  <2> QED
    BY <1>3, <2>1 DEF ChangeOrder, TInv, TypeOK, HasLine, OrderType
<1> QED
  BY <1>1, <1>2, <1>3, BeginTyped, VoidTyped, LineTyped DEF Next

(* The variables keep their types, for any number of workers and lines:    *)
(* numbers are taken from the highest one, and there always is one.        *)
THEOREM TypeCorrect == Spec => []TypeOK
<1>1. TInv => TypeOK
  BY DEF TInv
<1> QED
  BY <1>1, TypesInit, TypesStep, PTL DEF Spec

-----------------------------------------------------------------------------
(* What the steps leave alone *)

(* The other workers stay where they are. *)
Others(w) == \A v \in Workers \ {w} : worker'[v] = worker[v]

(* Explanations *)
LEMMA ReplySteps ==
  ASSUME TInv, NEW w \in Workers, SendReply(w) \/ \E l \in Lines : ClaimReply(w, l)
  PROVE  /\ Others(w) /\ worker'[w].at \in {"reply", "receipts", "lines"}
         /\ UNCHANGED <<order, line, sent, void, verified, crashes>>
         /\ \A l \in Lines : group'[l].sheets = group[l].sheets /\ group'[l].nos = group[l].nos
                             /\ group'[l].voids = group[l].voids
<1>1. worker \in [Workers -> WorkerType] /\ worker[w] \in WorkerType /\ TablesTyped
  BY WorkerShape
<1>2. CASE SendReply(w)
  <2>1. Others(w) /\ worker'[w].at \in {"receipts", "lines"}
    BY <1>1, <1>2 DEF SendReply, Return, Others, WorkerType
  <2>2. \A l \in Lines : group'[l].sheets = group[l].sheets /\ group'[l].nos = group[l].nos
                         /\ group'[l].voids = group[l].voids
    <3>1. CASE group' = group
      BY <3>1
    <3>2. CASE group' = [group EXCEPT ![worker[w].on].replies = @ + 1]
      BY <1>1, <3>2 DEF TablesTyped, GroupType
    <3> QED
      BY <1>2, <3>1, <3>2 DEF SendReply
  <2> QED
    BY <1>2, <2>1, <2>2 DEF SendReply
<1>3. ASSUME NEW l \in Lines, ClaimReply(w, l)
      PROVE  /\ Others(w) /\ worker'[w].at \in {"reply", "receipts", "lines"}
             /\ UNCHANGED <<order, line, sent, void, verified, group, crashes>>
  <2>1. CASE Return(w, l)
    BY <1>1, <1>3, <2>1 DEF ClaimReply, Return, Others, WorkerType
  <2>2. CASE worker' = [worker EXCEPT ![w].at = "reply", ![w].on = l]
    BY <1>1, <1>3, <2>2 DEF ClaimReply, Others, WorkerType
  <2> QED
    BY <1>3, <2>1, <2>2 DEF ClaimReply
<1> QED
  BY <1>2, <1>3

(* Calls that begin, and the sweep of the activated orders *)
LEMMA BeginSteps ==
  ASSUME TInv, NEW w \in Workers,
         \/ Start(w) \/ Supersede(w)
         \/ \E scope \in SUBSET Lines \ {{}} : Resume(w, scope)
         \/ \E l \in Lines : Reply(w, l)
  PROVE  /\ Others(w) /\ worker'[w].at \in {"idle", "supersede", "refunds", "pending"}
         /\ UNCHANGED <<order, void, group, crashes>>
         /\ Start(w) \/ Supersede(w) \/ worker'[w].at \in {"idle", "pending"}
<1>1. worker \in [Workers -> WorkerType] /\ worker[w] \in WorkerType
  BY WorkerShape
<1>2. CASE Start(w)
  BY <1>1, <1>2 DEF Start, Begin, Others, Idle, tables
<1>3. CASE Supersede(w)
  BY <1>1, <1>3 DEF Supersede, Others, Idle
<1>4. CASE \E scope \in SUBSET Lines \ {{}} : Resume(w, scope)
  BY <1>1, <1>4 DEF Resume, Begin, Others, Idle, tables
<1>5. CASE \E l \in Lines : Reply(w, l)
  BY <1>1, <1>5 DEF Reply, Begin, Others, Idle
<1> QED
  BY <1>2, <1>3, <1>4, <1>5

(* Withdrawals *)
LEMMA VoidFrame ==
  ASSUME TInv, NEW w \in Workers, VoidStep(w) \/ \E l \in Lines : ArchiveVoid(w, l)
  PROVE  /\ Others(w) /\ worker'[w].at \in {"void", "void_card", "void_answered"}
         /\ UNCHANGED <<order, line, sent, question, verified, crashes>>
         /\ \A l \in Lines : group'[l].sheets = group[l].sheets /\ group'[l].nos = group[l].nos
                             /\ group'[l].replies = group[l].replies
<1>1. worker \in [Workers -> WorkerType] /\ worker[w] \in WorkerType /\ TablesTyped
  BY WorkerShape
<1>2. Others(w)
  BY <1>1 DEF Others, VoidStep, ReadRefunds, SendVoid, RecordVoid, VoidFails, ArchiveVoid
<1>3. worker'[w].at \in {"void", "void_card", "void_answered"}
  <2>1. CASE ReadRefunds(w)
    BY <1>1, <2>1 DEF ReadRefunds, WorkerType
  <2>2. CASE SendVoid(w) \/ RecordVoid(w)
    BY <1>1, <2>2 DEF SendVoid, RecordVoid, WorkerType
  <2>3. ASSUME NEW l \in Lines, VoidFails(w, l) \/ ArchiveVoid(w, l)
        PROVE  worker'[w].at \in {"void", "void_card"}
    <3>1. CASE VoidFails(w, l)
      BY <1>1, <3>1 DEF VoidFails, WorkerType
    <3>2. CASE ArchiveVoid(w, l)
      BY <1>1, <3>2 DEF ArchiveVoid, WorkerType
    <3> QED
      BY <2>3, <3>1, <3>2
  <2> QED
    BY <2>1, <2>2, <2>3 DEF VoidStep
<1>4. UNCHANGED <<order, line, sent, question, verified, crashes>>
  BY DEF VoidStep, ReadRefunds, SendVoid, RecordVoid, VoidFails, ArchiveVoid, tables
<1>5. \A l \in Lines : group'[l].sheets = group[l].sheets /\ group'[l].nos = group[l].nos
                       /\ group'[l].replies = group[l].replies
  <2>1. CASE group' = group
    BY <2>1
  <2>2. CASE SendVoid(w)
    BY <1>1, <2>2 DEF SendVoid, TablesTyped, GroupType
  <2> QED
    BY <2>1, <2>2 DEF VoidStep, ReadRefunds, RecordVoid, VoidFails, ArchiveVoid
<1> QED
  BY <1>2, <1>3, <1>4, <1>5

(* The loop over the lines, apart from questions and explanations *)
LoopSteps == {"receipts", "lines", "idle", "claimed", "render", "ask", "send", "answered",
              "unanswered", "explain"}

LEMMA LoopFrame ==
  ASSUME TInv, NEW w \in Workers,
         \/ ReadReceipts(w) \/ ReadLines(w) \/ CommitClaim(w) \/ MarkSending(w)
         \/ RenderFails(w) \/ SendImage(w) \/ Record(w) \/ SettleUnknown(w) \/ Finish(w)
         \/ \E l \in Lines : Skip(w, l) \/ Claim(w, l)
  PROVE  /\ Others(w) /\ worker'[w].at \in LoopSteps
         /\ UNCHANGED <<order, void, question, verified, crashes>>
         /\ \A l \in Lines : group'[l].voids = group[l].voids /\ group'[l].replies = group[l].replies
         /\ (\E l \in Lines : Claim(w, l)) \/ worker'[w].at # "claimed"
         /\ CommitClaim(w) \/ MarkSending(w) \/ worker'[w].at \notin {"render", "send"}
<1>1. worker \in [Workers -> WorkerType] /\ worker[w] \in WorkerType /\ TablesTyped
  BY WorkerShape
<1>2. Others(w)
  <2>1. CASE ReadReceipts(w) \/ ReadLines(w) \/ CommitClaim(w) \/ MarkSending(w)
    BY <1>1, <2>1 DEF Others, ReadReceipts, ReadLines, CommitClaim, MarkSending
  <2>2. CASE RenderFails(w) \/ SendImage(w) \/ Record(w) \/ SettleUnknown(w) \/ Finish(w)
    BY <1>1, <2>2 DEF Others, RenderFails, SendImage, Record, SettleUnknown, Finish
  <2>3. CASE \E l \in Lines : Skip(w, l) \/ Claim(w, l)
    BY <1>1, <2>3 DEF Others, Skip, Pass, Claim
  <2> QED
    BY <2>1, <2>2, <2>3
<1>3. UNCHANGED <<order, void, question, verified, crashes>>
  BY DEF ReadReceipts, ReadLines, CommitClaim, MarkSending, RenderFails, SendImage, Record,
     SettleUnknown, Finish, Skip, Claim, tables
<1>4. \A l \in Lines : group'[l].voids = group[l].voids /\ group'[l].replies = group[l].replies
  <2>1. CASE SendImage(w)
    BY <1>1, <2>1 DEF SendImage, TablesTyped, GroupType
  <2>2. CASE group' = group
    BY <2>2
  <2> QED
    BY <2>1, <2>2 DEF ReadReceipts, ReadLines, CommitClaim, MarkSending, RenderFails, Record,
       SettleUnknown, Finish, Skip, Claim, tables
<1>5. CASE ReadReceipts(w) \/ ReadLines(w) \/ RenderFails(w) \/ Finish(w)
  BY <1>1, <1>2, <1>3, <1>4, <1>5 DEF ReadReceipts, ReadLines, RenderFails, Finish, Idle,
     WorkerType, LoopSteps
<1>6. CASE SendImage(w) \/ Record(w) \/ SettleUnknown(w)
  BY <1>1, <1>2, <1>3, <1>4, <1>6 DEF SendImage, Record, SettleUnknown, WorkerType, LoopSteps
<1>7. CASE MarkSending(w)
  <2>1. worker'[w].at = "send"
    BY <1>1, <1>7 DEF MarkSending, WorkerType
  <2> QED
    BY <1>2, <1>3, <1>4, <1>7, <2>1 DEF LoopSteps
<1>8. CASE CommitClaim(w)
  <2>1. worker'[w].at \in {"idle", "render"}
    BY <1>1, <1>8 DEF CommitClaim, WorkerType, Idle
  <2> QED
    BY <1>2, <1>3, <1>4, <1>8, <2>1 DEF LoopSteps
<1>9. ASSUME NEW l \in Lines, Skip(w, l) PROVE worker'[w].at = "lines"
  BY <1>1, <1>9 DEF Skip, Visits, Pass, WorkerType
<1>10. ASSUME NEW l \in Lines, Claim(w, l) PROVE worker'[w].at = "claimed"
  <2> DEFINE x == [worker[w] EXCEPT !.at = "claimed", !.on = l, !.todo = worker[w].todo \ {l},
                     !.no = IF line[l].no = 0 THEN NextNo ELSE line[l].no]
  <2>1. worker'[w] = x
    BY <1>10, TakesLine DEF Becomes, TInv
  <2>2. x.at = "claimed"
    BY <1>1 DEF WorkerType
  <2> QED
    BY <2>1, <2>2
<1>11. CASE \E l \in Lines : Skip(w, l) \/ Claim(w, l)
  <2>1. worker'[w].at = "lines" \/ (worker'[w].at = "claimed" /\ \E l \in Lines : Claim(w, l))
    BY <1>9, <1>10, <1>11
  <2> QED
    BY <1>2, <1>3, <1>4, <2>1 DEF LoopSteps
<1> QED
  BY <1>5, <1>6, <1>7, <1>8, <1>11

(* Questions *)
LEMMA AskSteps ==
  ASSUME TInv, NEW w \in Workers, Ask(w) \/ SendCard(w)
  PROVE  /\ Others(w) /\ worker'[w].at \in {"card", "lines"}
         /\ UNCHANGED <<order, line, sent, void, verified, group, crashes>>
<1>1. worker \in [Workers -> WorkerType] /\ worker[w] \in WorkerType
  BY WorkerShape
<1> QED
  BY <1>1 DEF Ask, SendCard, Others, WorkerType

-----------------------------------------------------------------------------
(* Pictures *)

(* Activations make an overlapping call start a line over whose picture is *)
(* on its way.  What follows holds where they do not occur, or where no    *)
(* two calls of the whole reconciliation overlap.                          *)
NoActivation == "activate" \notin Changes

SoleCaller == \A v, w \in Callers : v = w

Scheduled == NoActivation \/ SoleCaller

Calm == NoActivation => \A l \in Lines : order[l].hold # "activated"

(* Evidence that was superseded: there is one row for each generation.     *)
Old(l) == {e \in sent : e.line = l /\ e.superseded}

Older(l) == IF Old(l) = {} THEN 0 ELSE 1

(* A line has one live row of evidence at most, and then it is sent; it    *)
(* was superseded once at most, and what is sent after that is known to be *)
(* for an activated order.                                                 *)
Archive(l) ==
    /\ Evidence(l) # {} => line[l].state = "sent"
    /\ \A e, f \in Evidence(l) : e = f
    /\ \A e, f \in Old(l) : e = f
    /\ Old(l) # {} => order[l].hold = "activated" /\ \A e \in Evidence(l) : e.activated

Archives == \A l \in Lines : Archive(l)

(* What a caller has read in order to supersede it is still so. *)
Sweep(w) ==
    worker[w].at = "supersede" =>
      /\ w \in Callers
      /\ \A l \in worker[w].todo : /\ Evidence(l) # {} /\ Evidence(l) \subseteq worker[w].known
                                   /\ \A e \in Evidence(l) : ~e.activated

Sweeps == \A w \in Workers : Sweep(w)

SendSteps == {"send", "answered", "unanswered"}

(* A worker at one of these steps owns the line it has in hand. *)
OwnerSteps == {"claimed", "render"} \cup SendSteps

(* What the row of the line says while a worker owns it *)
Hand(w) ==
    \A l \in Lines : worker[w].on = l =>
      /\ worker[w].at = "claimed" => Free(l)
      /\ worker[w].at = "render" => line[l].state = "rendering" /\ line[l].no = worker[w].no
      /\ worker[w].at \in SendSteps => line[l].state = "sending_image" /\ line[l].no = worker[w].no
      /\ worker[w].at = "send" => group[l].sheets = Older(l)
      /\ worker[w].at = "answered" => group[l].sheets = Older(l) + 1

Held == \A w \in Workers : Hand(w)

OneOwner ==
    \A v, w \in Workers :
      v # w /\ worker[v].at \in OwnerSteps /\ worker[w].at \in OwnerSteps
        => worker[v].on # worker[w].on

(* What the group has received of a line: the pictures that are superseded *)
(* and at most one more, which is there if the line is sent.               *)
Picture(l) ==
    /\ group[l].sheets \in {Older(l), Older(l) + 1}
    /\ ~Committed(l) => group[l].sheets = Older(l)
    /\ line[l].state = "sent" => group[l].sheets = Older(l) + 1

Pictures == \A l \in Lines : Picture(l)

IInv == TInv /\ Calm /\ Archives /\ Sweeps /\ Held /\ OneOwner /\ Pictures

LEMMA SafeInit == Init => IInv
<1> SUFFICES ASSUME Init PROVE IInv
  OBVIOUS
<1>1. TInv /\ worker = [w \in Workers |-> Idle] /\ Idle.at = "idle" /\ NewLine.state = "none"
  BY TypesInit DEF Init, Idle, NewLine
<1>2. Calm
  BY DEF Init, Calm
<1>3. \A l \in Lines : Evidence(l) = {} /\ Old(l) = {}
  BY DEF Init, Evidence, Old
<1>4. Archives
  BY <1>3 DEF Archives, Archive
<1>5. Sweeps /\ Held /\ OneOwner
  BY <1>1 DEF Sweeps, Sweep, Held, Hand, OneOwner, OwnerSteps, SendSteps
<1>6. Pictures
  <2> SUFFICES ASSUME NEW l \in Lines PROVE Picture(l)
    BY DEF Pictures
  <2>1. group[l].sheets = 0 /\ group[l].nos = {} /\ line[l].state = "none"
    BY <1>1 DEF Init
  <2>2. Older(l) = 0
    BY <1>3 DEF Older
  <2> QED
    BY <2>1, <2>2 DEF Picture, Committed, FreeStates
<1> QED
  BY <1>1, <1>2, <1>4, <1>5, <1>6 DEF IInv

(* Neither the rows nor what the group has of a sheet changes. *)
SameSheets ==
    /\ line' = line
    /\ \A l \in Lines : group'[l].sheets = group[l].sheets /\ group'[l].nos = group[l].nos

(* No evidence is written, and a sent line stays sent. *)
SameEvidence ==
    /\ order' = order /\ sent' = sent
    /\ \A l \in Lines : line[l].state = "sent" => line'[l].state = "sent"

LEMMA StaysArchived ==
  ASSUME IInv, NEW w \in Workers, Others(w), Sweep(w)', SameEvidence
  PROVE  Calm' /\ Archives' /\ Sweeps' /\ \A l \in Lines : Older(l)' = Older(l)
<1>1. \A l \in Lines : Evidence(l)' = Evidence(l) /\ Old(l)' = Old(l)
  BY DEF SameEvidence, Evidence, Old
<1>2. Calm'
  BY DEF IInv, Calm, SameEvidence
<1>3. Archives'
  BY <1>1 DEF IInv, Archives, Archive, SameEvidence
<1>4. ASSUME NEW v \in Workers \ {w} PROVE Sweep(v)'
  <2>1. worker'[v] = worker[v] /\ Sweep(v) /\ worker[v].todo \subseteq Lines
    BY WorkerShape DEF Others, IInv, Sweeps
  <2> QED
    BY <1>1, <2>1 DEF Sweep
<1> QED
  BY <1>1, <1>2, <1>3, <1>4 DEF Sweeps, Older

(* What the other workers own is still theirs if only line l changes and   *)
(* no other worker owns it.                                                *)
LEMMA OthersHold ==
  ASSUME IInv, NEW w \in Workers, NEW l \in Lines, Others(w),
         \A k \in Lines \ {l} : line'[k] = line[k] /\ group'[k].sheets = group[k].sheets,
         \A k \in Lines : Older(k)' = Older(k),
         \A v \in Workers \ {w} : worker[v].at \in OwnerSteps => worker[v].on # l,
         NEW v \in Workers \ {w}
  PROVE  Hand(v)'
<1>1. CASE worker[v].at \notin OwnerSteps
  BY <1>1 DEF Hand, OwnerSteps, SendSteps, Others
<1>2. ASSUME NEW k \in Lines, worker[v].on = k, worker[v].at \in OwnerSteps PROVE Hand(v)'
  <2>1. worker'[v] = worker[v] /\ k # l
    BY <1>2 DEF Others
  <2>2. line'[k] = line[k] /\ group'[k].sheets = group[k].sheets /\ Older(k)' = Older(k)
    BY <2>1
  <2>3. Hand(v)
    BY DEF IInv, Held
  <2> QED
    BY <1>2, <2>1, <2>2, <2>3 DEF Hand, Free
<1>3. worker[v].at \in OwnerSteps => worker[v].on \in Lines
  BY DEF IInv, TInv, HasLine, OwnerSteps, SendSteps, HandSteps
<1> QED
  BY <1>1, <1>2, <1>3

(* A step that leaves the sheets and the evidence alone and ends where     *)
(* nothing is owned.                                                       *)
LEMMA LeavesAlone ==
  ASSUME IInv, TInv', NEW w \in Workers, Others(w), worker'[w].at \notin OwnerSteps,
         SameSheets, order' = order, sent' = sent, Sweep(w)'
  PROVE  IInv'
<1>1. Calm' /\ Archives' /\ Sweeps' /\ \A l \in Lines : Older(l)' = Older(l)
  BY StaysArchived DEF SameEvidence, SameSheets
<1>2. Held'
  <2>1. Hand(w)'
    BY DEF Hand, OwnerSteps, SendSteps
  <2>2. ASSUME NEW v \in Workers \ {w} PROVE Hand(v)'
    <3>1. worker'[v] = worker[v] /\ Hand(v)
      BY DEF Others, IInv, Held
    <3> QED
      BY <1>1, <3>1 DEF Hand, SameSheets, Free
  <2> QED
    BY <2>1, <2>2 DEF Held
<1>3. OneOwner'
  BY DEF IInv, OneOwner, Others
<1>4. Pictures'
  BY <1>1 DEF IInv, Pictures, Picture, SameSheets, Committed
<1> QED
  BY <1>1, <1>2, <1>3, <1>4 DEF IInv

(* A worker that owns a line lets go of it. *)
LEMMA LetsGo ==
  ASSUME IInv, TInv', NEW w \in Workers, Others(w), worker'[w].at \notin OwnerSteps,
         worker[w].at \in OwnerSteps, worker[w].at # "claimed", group' = group,
         Calm', Archives', Sweeps', \A k \in Lines : Older(k)' = Older(k),
         NEW l \in Lines, worker[w].on = l,
         \A k \in Lines \ {l} : line'[k] = line[k], line'[l].no = line[l].no,
         line'[l].state \in {"failed", "sent", "uncertain"},
         worker[w].at # "render" => line'[l].state # "failed",
         line'[l].state = "sent" => worker[w].at = "answered"
  PROVE  IInv'
<1>1. line[l].state \in {"rendering", "sending_image"}
      /\ (worker[w].at = "render" => line[l].state = "rendering")
  BY DEF IInv, Held, Hand, OwnerSteps
<1>2. \A v \in Workers \ {w} : worker[v].at \in OwnerSteps => worker[v].on # l
  BY DEF IInv, OneOwner
<1>3. Held'
  <2>1. Hand(w)'
    BY DEF Hand, OwnerSteps, SendSteps
  <2>2. ASSUME NEW v \in Workers \ {w} PROVE Hand(v)'
    BY <1>2, OthersHold
  <2> QED
    BY <2>1, <2>2 DEF Held
<1>4. OneOwner'
  BY DEF IInv, OneOwner, Others
<1>5. Pictures'
  <2>1. Picture(l)'
    <3>1. Picture(l) /\ Older(l)' = Older(l)
      BY DEF IInv, Pictures
    <3>2. (Committed(l) => Committed(l)') /\ (~Committed(l)' => ~Committed(l))
      <4>1. CASE worker[w].at = "render"
        BY <1>1, <4>1 DEF Committed
      <4>2. CASE worker[w].at # "render"
        BY <4>2 DEF Committed, FreeStates
      <4> QED
        BY <4>1, <4>2
    <3>3. worker[w].at = "answered" => group[l].sheets = Older(l) + 1
      BY DEF IInv, Held, Hand
    <3> QED
      BY <3>1, <3>2, <3>3 DEF Picture
  <2>2. ASSUME NEW k \in Lines \ {l} PROVE Picture(k)'
    BY <2>2 DEF IInv, Pictures, Picture, Committed
  <2> QED
    BY <2>1, <2>2 DEF Pictures
<1> QED
  BY <1>3, <1>4, <1>5 DEF IInv

(* A worker that is not about to supersede has nothing to keep in mind. *)
LEMMA NoSweep == ASSUME NEW w \in Workers, worker'[w].at # "supersede" PROVE Sweep(w)'
BY DEF Sweep

(* What was read is still so when the sole caller supersedes: it is all    *)
(* the evidence of a line that was never started over.                     *)
LEMMA Superseded ==
  ASSUME Scheduled, IInv, NEW w \in Workers, Supersede(w), NEW l \in Lines,
         l \in worker[w].todo, order[l].hold = "activated"
  PROVE  /\ SoleCaller /\ w \in Callers
         /\ line[l].state = "sent" /\ Old(l) = {} /\ Evidence(l) # {}
         /\ Evidence(l) \subseteq worker[w].known
<1>1. SoleCaller
  BY DEF Scheduled, IInv, Calm
<1>2. Sweep(w) /\ Archive(l) /\ worker[w].at = "supersede"
  BY DEF IInv, Sweeps, Archives, Supersede
<1>3. w \in Callers /\ Evidence(l) # {} /\ Evidence(l) \subseteq worker[w].known
      /\ \A e \in Evidence(l) : ~e.activated
  BY <1>2 DEF Sweep
<1> QED
  BY <1>1, <1>2, <1>3 DEF Archive

(* Lines that are started over had one live row of evidence, which is the  *)
(* one superseded row afterwards; the others stay as they are.             *)
LEMMA StartsOver ==
  ASSUME Scheduled, IInv, NEW w \in Workers, Supersede(w), NEW l \in Lines
  PROVE  \/ /\ line'[l] = line[l] /\ Evidence(l)' = Evidence(l) /\ Old(l)' = Old(l)
         \/ /\ SoleCaller /\ w \in Callers /\ order[l].hold = "activated"
            /\ line[l].state = "sent" /\ line'[l] = NewLine
            /\ Old(l) = {} /\ Old(l)' # {} /\ Evidence(l)' = {}
            /\ \A e, f \in Old(l)' : e = f
<1> DEFINE reset == {k \in worker[w].todo : order[k].hold = "activated" /\ ~order[k].refunded}
           known == worker[w].known
           new(e) == IF e \in known /\ e.line \in reset THEN [e EXCEPT !.superseded = TRUE] ELSE e
<1>1. sent' = {new(e) : e \in sent} /\ line'[l] = IF l \in reset THEN NewLine ELSE line[l]
  BY DEF Supersede
<1>2. sent \subseteq EvidenceType
  BY DEF IInv, TInv, TypeOK, EvidenceType
<1>3. \A e \in sent : new(e).line = e.line /\ (e.superseded => new(e).superseded)
  BY <1>2 DEF EvidenceType
<1>4. CASE l \notin reset
  <2>1. \A e \in sent : e.line = l => new(e) = e
    BY <1>4
  <2> HIDE DEF new
  <2>2. {e \in sent' : e.line = l} = {e \in sent : e.line = l}
    BY <1>1, <1>3, <2>1
  <2>3. Evidence(l)' = Evidence(l) /\ Old(l)' = Old(l)
    BY <2>2 DEF Evidence, Old
  <2> QED
    BY <1>1, <1>4, <2>3
<1>5. CASE l \in reset
  <2>1. /\ SoleCaller /\ w \in Callers /\ line[l].state = "sent" /\ Old(l) = {} /\ Evidence(l) # {}
        /\ Evidence(l) \subseteq known
    BY <1>5, Superseded
  <2>2. \A e, f \in Evidence(l) : e = f
    BY DEF IInv, Archives, Archive
  <2>3. PICK d \in Evidence(l) : Evidence(l) = {d}
    BY <2>1, <2>2
  <2>4. d \in sent /\ d.line = l /\ d \in known
    BY <2>1, <2>3 DEF Evidence
  <2>5. new(d).superseded /\ new(d).line = l
    BY <1>2, <1>5, <2>4 DEF EvidenceType
  <2>6. \A e \in sent : e.line = l => e = d
    BY <2>1, <2>3 DEF Evidence, Old
  <2> HIDE DEF new, reset, known
  <2>7. {e \in sent' : e.line = l} = {new(d)}
    BY <1>1, <1>3, <2>4, <2>5, <2>6
  <2>8. Old(l)' = {new(d)} /\ Evidence(l)' = {}
    BY <2>5, <2>7 DEF Old, Evidence
  <2>9. order[l].hold = "activated" /\ line'[l] = NewLine
    BY <1>1, <1>5 DEF reset
  <2> QED
    BY <2>1, <2>8, <2>9
<1> QED
  BY <1>4, <1>5

LEMMA SupersedeSafe ==
  ASSUME Scheduled, IInv, TInv', NEW w \in Workers, Supersede(w) PROVE IInv'
<1>1. worker \in [Workers -> WorkerType] /\ worker[w] \in WorkerType
  BY WorkerShape DEF IInv
<1>2. Others(w) /\ worker'[w].at = "refunds" /\ order' = order /\ group' = group
  <2> DEFINE x == [Idle EXCEPT !.at = "refunds"]
  <2>1. x.at = "refunds"
    BY DEF Idle
  <2>2. worker' = [worker EXCEPT ![w] = x] /\ order' = order /\ group' = group
    BY DEF Supersede
  <2> HIDE DEF x
  <2> QED
    BY <1>1, <2>1, <2>2 DEF Others
<1>3. NewLine.state = "none"
  BY DEF NewLine
<1>4. Calm'
  BY <1>2 DEF IInv, Calm
<1>5. Archives'
  <2> SUFFICES ASSUME NEW l \in Lines PROVE Archive(l)'
    BY DEF Archives
  <2>1. Archive(l)
    BY DEF IInv, Archives
  <2> QED
    BY <1>2, <2>1, StartsOver DEF Archive
<1>6. Sweeps'
  <2>1. Sweep(w)'
    BY <1>2 DEF Sweep
  <2>2. ASSUME NEW v \in Workers \ {w} PROVE Sweep(v)'
    <3>1. worker'[v] = worker[v] /\ Sweep(v) /\ worker[v].todo \subseteq Lines /\ Sweep(w)
          /\ worker[w].at = "supersede"
      BY <1>2, WorkerShape DEF Others, IInv, Sweeps, Supersede
    <3>2. CASE \A l \in Lines : Evidence(l)' = Evidence(l)
      BY <3>1, <3>2 DEF Sweep
    <3>3. CASE SoleCaller /\ w \in Callers
      <4>1. worker[v].at # "supersede"
        BY <3>1, <3>3 DEF Sweep, SoleCaller
      <4> QED
        BY <3>1, <4>1 DEF Sweep
    <3> QED
      BY <3>2, <3>3, StartsOver
  <2> QED
    BY <2>1, <2>2 DEF Sweeps
<1>7. Held'
  <2>1. Hand(w)'
    BY <1>2 DEF Hand, SendSteps
  <2>2. ASSUME NEW v \in Workers \ {w}, NEW l \in Lines, worker[v].on = l,
               worker[v].at \in OwnerSteps
        PROVE  Hand(v)'
    <3>1. worker'[v] = worker[v] /\ Hand(v) /\ group'[l] = group[l]
      BY <1>2 DEF Others, IInv, Held
    <3>2. line[l].state # "sent"
      BY <2>2, <3>1 DEF Hand, OwnerSteps, Free, FreeStates
    <3>3. line'[l] = line[l] /\ Older(l)' = Older(l)
      BY <3>2, StartsOver DEF Older
    <3> QED
      BY <2>2, <3>1, <3>3 DEF Hand, Free
  <2>3. ASSUME NEW v \in Workers \ {w}, worker[v].at \notin OwnerSteps PROVE Hand(v)'
    <3>1. worker'[v] = worker[v]
      BY <1>2 DEF Others
    <3> QED
      BY <2>3, <3>1 DEF Hand, OwnerSteps, SendSteps
  <2>4. \A v \in Workers : worker[v].at \in OwnerSteps => worker[v].on \in Lines
    BY DEF IInv, TInv, HasLine, OwnerSteps, SendSteps, HandSteps
  <2> QED
    BY <2>1, <2>2, <2>3, <2>4 DEF Held
<1>8. OneOwner'
  BY <1>2 DEF IInv, OneOwner, Others, OwnerSteps, SendSteps
<1>9. Pictures'
  <2> SUFFICES ASSUME NEW l \in Lines PROVE Picture(l)'
    BY DEF Pictures
  <2>1. Picture(l) /\ group' = group
    BY <1>2 DEF IInv, Pictures
  <2>2. CASE line'[l] = line[l] /\ Older(l)' = Older(l)
    BY <2>1, <2>2 DEF Picture, Committed
  <2>3. CASE order[l].hold = "activated" /\ line[l].state = "sent" /\ line'[l] = NewLine
             /\ Older(l) = 0 /\ Older(l)' = 1
    <3>1. ~NoActivation /\ group[l].sheets = 1
      BY <2>1, <2>3 DEF IInv, Calm, Picture
    <3>2. line'[l].state = "none" /\ ~Committed(l)'
      BY <1>3, <2>3 DEF Committed, FreeStates
    <3> QED
      BY <2>1, <2>3, <3>1, <3>2 DEF Picture
  <2> QED
    BY <2>2, <2>3, StartsOver DEF Older
<1> QED
  BY <1>4, <1>5, <1>6, <1>7, <1>8, <1>9 DEF IInv

(* Calls that begin *)
LEMMA BeginSafe ==
  ASSUME IInv, TInv', NEW w \in Workers,
         \/ Start(w)
         \/ \E scope \in SUBSET Lines \ {{}} : Resume(w, scope)
         \/ \E l \in Lines : Reply(w, l)
  PROVE  IInv'
<1>1. worker \in [Workers -> WorkerType] /\ worker[w] \in WorkerType
  BY WorkerShape DEF IInv
<1>2. ASSUME order' = order, sent' = sent, line' = line, group' = group,
             NEW x, worker' = [worker EXCEPT ![w] = x], x.at \notin OwnerSteps,
             x.at = "supersede" => Sweep(w)'
      PROVE  IInv'
  <2>1. Others(w) /\ worker'[w].at \notin OwnerSteps /\ SameSheets /\ Sweep(w)'
    BY <1>1, <1>2, NoSweep DEF Others, SameSheets
  <2> QED
    BY <1>2, <2>1, LeavesAlone
<1>3. CASE Start(w)
  <2> DEFINE stale == {l \in SentLines : \A e \in Evidence(l) : ~e.activated}
             x == [Idle EXCEPT !.at = "supersede", !.todo = stale,
                               !.known = UNION {Evidence(l) : l \in stale}]
  <2>1. worker' = [worker EXCEPT ![w] = x] /\ w \in Callers
    BY <1>3 DEF Start, Begin
  <2>2. x.at \notin OwnerSteps
    BY DEF Idle, OwnerSteps, SendSteps
  <2>3. order' = order /\ sent' = sent /\ line' = line /\ group' = group
    BY <1>3 DEF Start, tables
  <2>4. Sweep(w)'
    <3>1. worker'[w] = x
      BY <1>1, <2>1
    <3>2. x.todo = stale /\ x.known = UNION {Evidence(l) : l \in stale}
      BY DEF Idle
    <3>3. \A l \in Lines : Evidence(l)' = Evidence(l)
      BY <2>3 DEF Evidence
    <3>4. \A l \in stale : Evidence(l) # {} /\ l \in Lines /\ \A e \in Evidence(l) : ~e.activated
      BY DEF SentLines
    <3> HIDE DEF x, stale
    <3>5. \A l \in worker'[w].todo :
            Evidence(l)' # {} /\ Evidence(l)' \subseteq worker'[w].known
            /\ \A e \in Evidence(l)' : ~e.activated
      BY <3>1, <3>2, <3>3, <3>4
    <3> QED
      BY <2>1, <3>5 DEF Sweep
  <2> HIDE DEF x
  <2> QED
    BY <1>2, <2>1, <2>2, <2>3, <2>4
<1>4. ASSUME NEW scope \in SUBSET Lines, Resume(w, scope) PROVE IInv'
  <2> DEFINE x == [Idle EXCEPT !.at = "pending",
                               !.todo = {l \in scope \ SentLines : Free(l) /\ Eligible(l)}]
  <2>1. worker' = [worker EXCEPT ![w] = x]
    BY <1>4 DEF Resume, Begin
  <2>2. x.at \notin OwnerSteps /\ x.at # "supersede"
    BY DEF Idle, OwnerSteps, SendSteps
  <2>3. order' = order /\ sent' = sent /\ line' = line /\ group' = group
    BY <1>4 DEF Resume, tables
  <2> HIDE DEF x
  <2> QED
    BY <1>2, <2>1, <2>2, <2>3
<1>5. ASSUME NEW l \in Lines, Reply(w, l) PROVE IInv'
  <2>1. order' = order /\ sent' = sent /\ line' = line /\ group' = group
    BY <1>5 DEF Reply
  <2>2. CASE Begin(w, [Idle EXCEPT !.at = "pending", !.todo = {l}])
    <3> DEFINE x == [Idle EXCEPT !.at = "pending", !.todo = {l}]
    <3>1. worker' = [worker EXCEPT ![w] = x]
      BY <2>2 DEF Begin
    <3>2. x.at \notin OwnerSteps /\ x.at # "supersede"
      BY DEF Idle, OwnerSteps, SendSteps
    <3> HIDE DEF x
    <3> QED
      BY <1>2, <2>1, <3>1, <3>2
  <2>3. CASE worker' = worker /\ worker[w].at = "idle"
    <3>1. Others(w) /\ worker'[w].at \notin OwnerSteps /\ SameSheets /\ Sweep(w)'
      BY <1>1, <2>1, <2>3, NoSweep DEF Others, SameSheets, OwnerSteps, SendSteps
    <3> QED
      BY <2>1, <3>1, LeavesAlone
  <2> QED
    BY <1>5, <2>2, <2>3 DEF Reply
<1> QED
  BY <1>3, <1>4, <1>5

(* Withdrawals *)
LEMMA VoidSafe ==
  ASSUME IInv, TInv', NEW w \in Workers, VoidStep(w) \/ \E l \in Lines : ArchiveVoid(w, l)
  PROVE  IInv'
BY VoidFrame, NoSweep, LeavesAlone DEF IInv, OwnerSteps, SendSteps, SameSheets

(* Steps of the loop that own nothing *)
LEMMA LoopSafe ==
  ASSUME IInv, TInv', NEW w \in Workers,
         \/ ReadReceipts(w) \/ ReadLines(w) \/ Ask(w) \/ SendCard(w) \/ Finish(w)
         \/ \E l \in Lines : Skip(w, l)
  PROVE  IInv'
<1>1. worker \in [Workers -> WorkerType] /\ worker[w] \in WorkerType
  BY WorkerShape DEF IInv
<1>2. Others(w)
  BY <1>1 DEF Others, ReadReceipts, ReadLines, Ask, SendCard, Finish, Skip, Pass
<1>3. worker'[w].at \in {"receipts", "lines", "card", "idle"}
  <2>1. CASE Finish(w)
    BY <1>1, <2>1 DEF Finish, Idle
  <2>2. CASE Ask(w)
    BY <1>1, <2>2 DEF Ask, WorkerType
  <2>3. CASE ReadLines(w) \/ SendCard(w)
    BY <1>1, <2>3 DEF ReadLines, SendCard, WorkerType
  <2>4. CASE ReadReceipts(w)
    BY <1>1, <2>4 DEF ReadReceipts, WorkerType
  <2>5. CASE \E l \in Lines : Skip(w, l)
    BY <1>1, <2>5 DEF Skip, Visits, Pass, WorkerType
  <2> QED
    BY <2>1, <2>2, <2>3, <2>4, <2>5
<1>4. order' = order /\ sent' = sent /\ line' = line /\ group' = group
  BY DEF ReadReceipts, ReadLines, Ask, SendCard, Finish, Skip, tables
<1> QED
  BY <1>2, <1>3, <1>4, NoSweep, LeavesAlone DEF OwnerSteps, SendSteps, SameSheets

(* Explanations are no pictures. *)
LEMMA ReplySafe ==
  ASSUME IInv, TInv', NEW w \in Workers, SendReply(w) \/ \E l \in Lines : ClaimReply(w, l)
  PROVE  IInv'
BY ReplySteps, NoSweep, LeavesAlone DEF IInv, OwnerSteps, SendSteps, SameSheets

(* A line is taken in hand. *)
LEMMA ClaimSafe ==
  ASSUME IInv, TInv', NEW w \in Workers, NEW l \in Lines, Claim(w, l) PROVE IInv'
<1>1. worker \in [Workers -> WorkerType] /\ worker[w] \in WorkerType /\ Free(l)
      /\ worker'[w] \in WorkerType
  BY WorkerShape, TakesLine DEF IInv, Claim, Becomes, TInv
<1>2. Others(w) /\ worker'[w].at = "claimed" /\ worker'[w].on = l
  BY <1>1 DEF Others, Claim, WorkerType
<1>3. order' = order /\ sent' = sent /\ line' = line /\ group' = group
  BY DEF Claim, tables
<1>4. Calm' /\ Archives' /\ Sweeps' /\ \A k \in Lines : Older(k)' = Older(k)
  BY <1>2, <1>3, NoSweep, StaysArchived DEF SameEvidence
<1>5. \A v \in Workers \ {w} : worker[v].at \in OwnerSteps => worker[v].on # l
  <2>1. \A v \in Workers : worker[v].at = "claimed" => worker[v].on # l
    BY DEF Claim
  <2>2. ASSUME NEW v \in Workers, worker[v].at \in OwnerSteps \ {"claimed"} PROVE worker[v].on # l
    <3>1. worker[v].on = l => line[l].state \in {"rendering", "sending_image"}
      BY <2>2 DEF IInv, Held, Hand, OwnerSteps
    <3> QED
      BY <1>1, <3>1 DEF Free, FreeStates
  <2> QED
    BY <2>1, <2>2
<1>6. Held'
  <2>1. Hand(w)'
    BY <1>1, <1>2, <1>3 DEF Hand, SendSteps, Free
  <2>2. ASSUME NEW v \in Workers \ {w} PROVE Hand(v)'
    BY <1>2, <1>3, <1>4, <1>5, OthersHold
  <2> QED
    BY <2>1, <2>2 DEF Held
<1>7. OneOwner'
  BY <1>2, <1>5 DEF IInv, OneOwner, Others
<1>8. Pictures'
  BY <1>3, <1>4 DEF IInv, Pictures, Picture, Committed
<1> QED
  BY <1>4, <1>6, <1>7, <1>8 DEF IInv

(* The claim is committed under a number no other line has, or the call    *)
(* ends.                                                                   *)
LEMMA CommitSafe ==
  ASSUME IInv, TInv', NEW w \in Workers, CommitClaim(w) PROVE IInv'
<1>1. worker \in [Workers -> WorkerType] /\ worker[w] \in WorkerType
      /\ line \in [Lines -> LineType]
  BY WorkerShape DEF IInv, TablesTyped
<1>2. Others(w) /\ order' = order /\ sent' = sent /\ group' = group
  BY <1>1 DEF Others, CommitClaim
<1>3. CASE worker' = [worker EXCEPT ![w] = Idle] /\ line' = line
  <2>1. worker'[w].at \notin OwnerSteps /\ worker'[w].at # "supersede"
    BY <1>1, <1>3 DEF Idle, OwnerSteps, SendSteps
  <2> QED
    BY <1>2, <1>3, <2>1, NoSweep, LeavesAlone DEF SameSheets
<1>4. ASSUME NEW l \in Lines, l = worker[w].on, \A k \in Lines \ {l} : line[k].no # worker[w].no,
             line' = [line EXCEPT ![l] = [state |-> "rendering", no |-> worker[w].no, msg |-> FALSE]],
             worker' = [worker EXCEPT ![w].at = "render"]
      PROVE  IInv'
  <2>1. worker'[w].at = "render" /\ worker'[w].on = l /\ worker'[w].no = worker[w].no
    BY <1>1, <1>4 DEF WorkerType
  <2>2. line'[l].state = "rendering" /\ line'[l].no = worker[w].no
        /\ \A k \in Lines \ {l} : line'[k] = line[k]
    BY <1>1, <1>4
  <2>3. worker[w].at = "claimed" /\ line[l].state \in FreeStates
    BY <1>4 DEF CommitClaim, IInv, Held, Hand, Free
  <2>4. \A v \in Workers \ {w} : worker[v].at \in OwnerSteps => worker[v].on # l
    BY <1>4, <2>3 DEF IInv, OneOwner, OwnerSteps
  <2>5. Calm' /\ Archives' /\ Sweeps' /\ \A k \in Lines : Older(k)' = Older(k)
    <3>1. \A k \in Lines : line[k].state = "sent" => line'[k].state = "sent"
      BY <2>2, <2>3 DEF FreeStates
    <3> QED
      BY <1>2, <2>1, <3>1, NoSweep, StaysArchived DEF SameEvidence
  <2>6. Held'
    <3>1. Hand(w)'
      BY <2>1, <2>2 DEF Hand, SendSteps
    <3>2. ASSUME NEW v \in Workers \ {w} PROVE Hand(v)'
      BY <1>2, <2>2, <2>4, <2>5, OthersHold
    <3> QED
      BY <3>1, <3>2 DEF Held
  <2>7. OneOwner'
    BY <1>2, <2>1, <2>4 DEF IInv, OneOwner, Others
  <2>8. Pictures'
    <3>1. Picture(l)'
      <4>1. Picture(l) /\ ~Committed(l) /\ ~Committed(l)'
        BY <2>2, <2>3 DEF IInv, Pictures, Committed
      <4> QED
        BY <1>2, <2>2, <2>5, <4>1 DEF Picture
    <3>2. ASSUME NEW k \in Lines \ {l} PROVE Picture(k)'
      BY <1>2, <2>2, <2>5, <3>2 DEF IInv, Pictures, Picture, Committed
    <3> QED
      BY <3>1, <3>2 DEF Pictures
  <2> QED
    BY <2>5, <2>6, <2>7, <2>8 DEF IInv
<1>5. worker[w].on \in Lines
  BY WorkerShape DEF IInv, CommitClaim, HandSteps
<1> QED
  BY <1>3, <1>4, <1>5 DEF CommitClaim

(* The row says that the picture is being sent. *)
LEMMA MarkSafe ==
  ASSUME IInv, TInv', NEW w \in Workers, MarkSending(w) PROVE IInv'
<1>1. PICK l \in Lines : l = worker[w].on
  BY WorkerShape DEF IInv, MarkSending, HandSteps
<1>2. worker \in [Workers -> WorkerType] /\ worker[w] \in WorkerType
      /\ line \in [Lines -> LineType]
  BY WorkerShape DEF IInv, TablesTyped
<1>3. Others(w) /\ order' = order /\ sent' = sent /\ group' = group
  BY <1>2 DEF Others, MarkSending
<1>4. worker[w].at = "render" /\ worker'[w].at = "send" /\ worker'[w].on = l
      /\ worker'[w].no = worker[w].no
  BY <1>1, <1>2 DEF MarkSending, WorkerType
<1>5. line'[l].state = "sending_image" /\ line'[l].no = line[l].no
      /\ \A k \in Lines \ {l} : line'[k] = line[k]
  BY <1>1, <1>2 DEF MarkSending, LineType
<1>6. line[l].state = "rendering" /\ line[l].no = worker[w].no
  BY <1>1, <1>4 DEF IInv, Held, Hand
<1>7. group[l].sheets = Older(l)
  BY <1>6 DEF IInv, Pictures, Picture, Committed
<1>8. \A v \in Workers \ {w} : worker[v].at \in OwnerSteps => worker[v].on # l
  BY <1>1, <1>4 DEF IInv, OneOwner, OwnerSteps
<1>9. Calm' /\ Archives' /\ Sweeps' /\ \A k \in Lines : Older(k)' = Older(k)
  <2>1. \A k \in Lines : line[k].state = "sent" => line'[k].state = "sent"
    BY <1>5, <1>6
  <2> QED
    BY <1>3, <1>4, <2>1, NoSweep, StaysArchived DEF SameEvidence
<1>10. Held'
  <2>1. Hand(w)'
    BY <1>3, <1>4, <1>5, <1>6, <1>7, <1>9 DEF Hand
  <2>2. ASSUME NEW v \in Workers \ {w} PROVE Hand(v)'
    BY <1>3, <1>5, <1>8, <1>9, OthersHold
  <2> QED
    BY <2>1, <2>2 DEF Held
<1>11. OneOwner'
  BY <1>3, <1>4, <1>8 DEF IInv, OneOwner, Others
<1>12. Pictures'
  <2>1. Picture(l)'
    BY <1>3, <1>5, <1>7, <1>9 DEF Picture, Committed, FreeStates
  <2>2. ASSUME NEW k \in Lines \ {l} PROVE Picture(k)'
    BY <1>3, <1>5, <1>9, <2>2 DEF IInv, Pictures, Picture, Committed
  <2> QED
    BY <2>1, <2>2 DEF Pictures
<1> QED
  BY <1>9, <1>10, <1>11, <1>12 DEF IInv

(* The picture arrives or not. *)
LEMMA SendSafe ==
  ASSUME IInv, TInv', NEW w \in Workers, SendImage(w) PROVE IInv'
<1>1. PICK l \in Lines : l = worker[w].on
  BY WorkerShape DEF IInv, SendImage, HandSteps
<1>2. worker \in [Workers -> WorkerType] /\ worker[w] \in WorkerType
      /\ group \in [Lines -> GroupType]
  BY WorkerShape DEF IInv, TablesTyped
<1>3. Others(w) /\ order' = order /\ sent' = sent /\ line' = line
  BY <1>2 DEF Others, SendImage, tables
<1>4. worker[w].at = "send" /\ worker'[w].at \in {"answered", "unanswered"} /\ worker'[w].on = l
      /\ worker'[w].no = worker[w].no
  BY <1>1, <1>2 DEF SendImage, WorkerType
<1>5. line[l].state = "sending_image" /\ line[l].no = worker[w].no /\ group[l].sheets = Older(l)
  BY <1>1, <1>4 DEF IInv, Held, Hand, SendSteps
<1>6. /\ group'[l].sheets \in {group[l].sheets, group[l].sheets + 1}
      /\ worker'[w].at = "answered" => group'[l].sheets = group[l].sheets + 1
      /\ \A k \in Lines \ {l} : group'[k] = group[k]
  <2>1. CASE group' = group /\ worker' = [worker EXCEPT ![w].at = "unanswered"]
    BY <1>2, <2>1 DEF WorkerType
  <2>2. CASE group' = [group EXCEPT ![l].sheets = @ + 1, ![l].nos = @ \cup {worker[w].no}]
    BY <1>2, <1>5, <2>2
  <2> QED
    BY <1>1, <2>1, <2>2 DEF SendImage
<1>7. \A v \in Workers \ {w} : worker[v].at \in OwnerSteps => worker[v].on # l
  BY <1>1, <1>4 DEF IInv, OneOwner, OwnerSteps, SendSteps
<1>8. Calm' /\ Archives' /\ Sweeps' /\ \A k \in Lines : Older(k)' = Older(k)
  BY <1>3, <1>4, NoSweep, StaysArchived DEF SameEvidence
<1>9. Held'
  <2>1. Hand(w)'
    BY <1>3, <1>4, <1>5, <1>6, <1>8 DEF Hand
  <2>2. ASSUME NEW v \in Workers \ {w} PROVE Hand(v)'
    BY <1>3, <1>6, <1>7, <1>8, OthersHold
  <2> QED
    BY <2>1, <2>2 DEF Held
<1>10. OneOwner'
  BY <1>3, <1>4, <1>7 DEF IInv, OneOwner, Others
<1>11. Pictures'
  <2>1. Picture(l)'
    <3>1. group'[l].sheets \in {Older(l), Older(l) + 1}
      BY <1>5, <1>6
    <3> QED
      BY <1>3, <1>5, <1>6, <1>8, <3>1 DEF Picture, Committed, FreeStates
  <2>2. ASSUME NEW k \in Lines \ {l} PROVE Picture(k)'
    BY <1>3, <1>6, <1>8, <2>2 DEF IInv, Pictures, Picture, Committed
  <2> QED
    BY <2>1, <2>2 DEF Pictures
<1> QED
  BY <1>8, <1>9, <1>10, <1>11 DEF IInv

(* Archive and row are written together: the line had no live evidence,    *)
(* for it was not sent yet.                                                *)
LEMMA RecordArchived ==
  ASSUME IInv, NEW w \in Workers, Record(w), Others(w), worker'[w].at # "supersede"
  PROVE  Calm' /\ Archives' /\ Sweeps' /\ \A l \in Lines : Older(l)' = Older(l)
<1>1. PICK l \in Lines : l = worker[w].on
  BY WorkerShape DEF IInv, Record, HandSteps
<1>2. line[l].state = "sending_image"
  BY <1>1 DEF IInv, Held, Hand, Record, SendSteps
<1> DEFINE e == [line |-> l, no |-> line[l].no, activated |-> order[l].hold = "activated",
                 superseded |-> FALSE]
<1>3. sent' = sent \cup {e} /\ order' = order
  BY <1>1 DEF Record
<1>4. e.line = l /\ ~e.superseded /\ (order[l].hold = "activated" => e.activated)
  OBVIOUS
<1>5. line'[l].state = "sent" /\ \A k \in Lines \ {l} : line'[k] = line[k]
  <2>1. line \in [Lines -> LineType]
    BY WorkerShape DEF IInv, TablesTyped
  <2> QED
    BY <1>1, <2>1 DEF Record, LineType
<1> HIDE DEF e
<1>6. Evidence(l) = {}
  BY <1>2 DEF IInv, Archives, Archive
<1>7. Evidence(l)' = {e} /\ \A k \in Lines \ {l} : Evidence(k)' = Evidence(k)
  <2>1. Evidence(l)' = Evidence(l) \cup {e}
    BY <1>3, <1>4 DEF Evidence
  <2>2. \A k \in Lines \ {l} : Evidence(k)' = Evidence(k)
    BY <1>3, <1>4 DEF Evidence
  <2> QED
    BY <1>6, <2>1, <2>2
<1>8. \A k \in Lines : Old(k)' = Old(k)
  BY <1>3, <1>4 DEF Old
<1>9. Calm'
  BY <1>3 DEF IInv, Calm
<1>10. Archives'
  <2>1. Archive(l)'
    BY <1>3, <1>4, <1>5, <1>7, <1>8 DEF IInv, Archives, Archive
  <2>2. ASSUME NEW k \in Lines \ {l} PROVE Archive(k)'
    BY <1>3, <1>5, <1>7, <1>8 DEF IInv, Archives, Archive
  <2> QED
    BY <2>1, <2>2 DEF Archives
<1>11. Sweeps'
  <2>1. Sweep(w)'
    BY NoSweep
  <2>2. ASSUME NEW v \in Workers \ {w} PROVE Sweep(v)'
    <3>1. worker'[v] = worker[v] /\ Sweep(v) /\ worker[v].todo \subseteq Lines
      BY WorkerShape DEF Others, IInv, Sweeps
    <3>2. worker[v].at = "supersede" => l \notin worker[v].todo
      BY <1>6, <3>1 DEF Sweep
    <3>3. \A k \in worker[v].todo : k # l => Evidence(k)' = Evidence(k)
      BY <1>7, <3>1
    <3> QED
      BY <3>1, <3>2, <3>3 DEF Sweep
  <2> QED
    BY <2>1, <2>2 DEF Sweeps
<1> QED
  BY <1>8, <1>9, <1>10, <1>11 DEF Older

(* The outcome is written. *)
LEMMA OutcomeSafe ==
  ASSUME IInv, TInv', NEW w \in Workers, RenderFails(w) \/ Record(w) \/ SettleUnknown(w)
  PROVE  IInv'
<1>1. PICK l \in Lines : l = worker[w].on
  BY WorkerShape DEF IInv, RenderFails, Record, SettleUnknown, HandSteps
<1>2. worker \in [Workers -> WorkerType] /\ worker[w] \in WorkerType
      /\ line \in [Lines -> LineType]
  BY WorkerShape DEF IInv, TablesTyped
<1>3. Others(w) /\ group' = group
  BY <1>2 DEF Others, RenderFails, Record, SettleUnknown
<1>4. worker'[w].at \in {"ask", "lines", "explain"}
  <2>1. CASE RenderFails(w)
    BY <1>2, <2>1 DEF RenderFails, WorkerType
  <2>2. CASE Record(w)
    BY <1>2, <2>2 DEF Record, WorkerType
  <2>3. CASE SettleUnknown(w)
    BY <1>2, <2>3 DEF SettleUnknown, WorkerType
  <2> QED
    BY <2>1, <2>2, <2>3
<1>5. line'[l].no = line[l].no /\ line'[l].state \in {"failed", "sent", "uncertain"}
      /\ \A k \in Lines \ {l} : line'[k] = line[k]
  <2>1. CASE RenderFails(w)
    BY <1>1, <1>2, <2>1 DEF RenderFails, LineType
  <2>2. CASE Record(w)
    BY <1>1, <1>2, <2>2 DEF Record, LineType
  <2>3. CASE SettleUnknown(w)
    BY <1>1, <1>2, <2>3 DEF SettleUnknown, LineType
  <2> QED
    BY <2>1, <2>2, <2>3
<1>6. /\ worker[w].at \in OwnerSteps \ {"claimed"}
      /\ worker[w].at # "render" => line'[l].state # "failed"
      /\ line'[l].state = "sent" => worker[w].at = "answered"
  <2>1. CASE RenderFails(w)
    BY <1>1, <1>2, <2>1 DEF RenderFails, OwnerSteps, LineType
  <2>2. CASE Record(w)
    BY <1>1, <1>2, <2>2 DEF Record, OwnerSteps, SendSteps, LineType
  <2>3. CASE SettleUnknown(w)
    BY <1>1, <1>2, <2>3 DEF SettleUnknown, OwnerSteps, SendSteps, LineType
  <2> QED
    BY <2>1, <2>2, <2>3
<1>7. Calm' /\ Archives' /\ Sweeps' /\ \A k \in Lines : Older(k)' = Older(k)
  <2>1. CASE RenderFails(w) \/ SettleUnknown(w)
    <3>1. line[l].state # "sent"
      BY <1>1, <1>6 DEF IInv, Held, Hand, OwnerSteps
    <3>2. \A k \in Lines : line[k].state = "sent" => line'[k].state = "sent"
      BY <1>5, <3>1
    <3> QED
      BY <1>3, <1>4, <2>1, <3>2, NoSweep, StaysArchived DEF SameEvidence, RenderFails, SettleUnknown
  <2>2. CASE Record(w)
    BY <1>3, <1>4, <2>2, RecordArchived
  <2> QED
    BY <2>1, <2>2
<1> QED
  BY <1>1, <1>3, <1>4, <1>5, <1>6, <1>7, LetsGo DEF OwnerSteps, SendSteps

(* An order that is activated stays so. *)
LEMMA ChangeSafe ==
  ASSUME IInv, TInv', NEW l \in Lines, ChangeOrder(l) PROVE IInv'
<1>1. UNCHANGED <<line, sent, worker, group>>
  BY DEF ChangeOrder
<1>2. \A k \in Lines : order[k].hold = "activated" => order'[k].hold = "activated"
  <2>1. order \in [Lines -> OrderType]
    BY DEF IInv, TInv, TypeOK, OrderType
  <2> QED
    BY <2>1 DEF ChangeOrder, OrderType
<1>3. Calm'
  <2> SUFFICES ASSUME NoActivation, NEW k \in Lines PROVE order'[k].hold # "activated"
    BY DEF Calm
  <2>1. order \in [Lines -> OrderType]
        /\ order[k].hold # "activated"
    BY DEF IInv, TInv, TypeOK, OrderType, Calm
  <2>2. \/ order' = [order EXCEPT ![l].refunded = TRUE]
        \/ order' = [order EXCEPT ![l].hold = "remote"]
        \/ order' = [order EXCEPT ![l].edited = ~@]
    BY DEF ChangeOrder, NoActivation
  <2> QED
    BY <2>1, <2>2 DEF OrderType
<1>4. \A k \in Lines : Evidence(k)' = Evidence(k) /\ Old(k)' = Old(k)
  BY <1>1 DEF Evidence, Old
<1>5. Archives'
  BY <1>1, <1>2, <1>4 DEF IInv, Archives, Archive
<1>6. Sweeps'
  <2>1. \A w \in Workers : worker[w].todo \subseteq Lines
    BY WorkerShape DEF IInv
  <2> QED
    BY <1>1, <1>4, <2>1 DEF IInv, Sweeps, Sweep
<1>7. Held' /\ OneOwner'
  BY <1>1, <1>4 DEF IInv, Held, Hand, Free, Older, OneOwner
<1>8. Pictures'
  BY <1>1, <1>4 DEF IInv, Pictures, Picture, Committed, Older
<1> QED
  BY <1>3, <1>5, <1>6, <1>7, <1>8 DEF IInv

(* The invariant is inductive. *)
LEMMA SafeStep == ASSUME Scheduled, IInv, [Next]_vars PROVE IInv'
<1>1. TInv'
  BY TypesStep DEF IInv
<1>2. CASE UNCHANGED vars
  <2>1. UNCHANGED <<order, line, sent, worker, group>>
    BY <1>2 DEF vars, tables
  <2>2. \A l \in Lines : Evidence(l)' = Evidence(l) /\ Old(l)' = Old(l)
    BY <2>1 DEF Evidence, Old
  <2>3. Calm' /\ Archives'
    BY <2>1, <2>2 DEF IInv, Calm, Archives, Archive
  <2>4. Sweeps'
    <3>1. \A w \in Workers : worker[w].todo \subseteq Lines
      BY WorkerShape DEF IInv
    <3> QED
      BY <2>1, <2>2, <3>1 DEF IInv, Sweeps, Sweep
  <2>5. Held' /\ OneOwner'
    <3>1. \A l \in Lines : Older(l)' = Older(l) /\ Free(l)' = Free(l)
      BY <2>1, <2>2 DEF Older, Free
    <3>2. Held'
      BY <2>1, <3>1 DEF IInv, Held, Hand
    <3>3. OneOwner'
      BY <2>1 DEF IInv, OneOwner
    <3> QED
      BY <3>2, <3>3
  <2>6. Pictures'
    BY <2>1, <2>2 DEF IInv, Pictures, Picture, Committed, Older
  <2> QED
    BY <1>1, <2>3, <2>4, <2>5, <2>6 DEF IInv
<1>3. CASE Crash
  <2>1. \A w \in Workers : worker'[w].at = "idle"
    BY <1>3 DEF Crash, Idle
  <2>2. UNCHANGED <<order, line, sent, group>>
    BY <1>3 DEF Crash, tables
  <2>3. Sweeps' /\ Held' /\ OneOwner'
    BY <2>1 DEF Sweeps, Sweep, Held, Hand, OneOwner, OwnerSteps, SendSteps
  <2>4. \A l \in Lines : Evidence(l)' = Evidence(l) /\ Old(l)' = Old(l)
    BY <2>2 DEF Evidence, Old
  <2>5. Calm' /\ Archives'
    BY <2>2, <2>4 DEF IInv, Calm, Archives, Archive
  <2>6. Pictures'
    BY <2>2, <2>4 DEF IInv, Pictures, Picture, Committed, Older
  <2> QED
    BY <1>1, <2>3, <2>5, <2>6 DEF IInv
<1>4. ASSUME NEW l \in Lines, ChangeOrder(l) PROVE IInv'
  BY <1>1, <1>4, ChangeSafe
<1>5. ASSUME NEW w \in Workers,
             \/ Start(w) \/ \E scope \in SUBSET Lines \ {{}} : Resume(w, scope)
             \/ \E l \in Lines : Reply(w, l)
      PROVE  IInv'
  BY <1>1, <1>5, BeginSafe
<1>6. ASSUME NEW w \in Workers, Supersede(w) PROVE IInv'
  BY <1>1, <1>6, SupersedeSafe
<1>7. ASSUME NEW w \in Workers, VoidStep(w) \/ \E l \in Lines : ArchiveVoid(w, l) PROVE IInv'
  BY <1>1, <1>7, VoidSafe
<1>8. ASSUME NEW w \in Workers, LineStep(w) PROVE IInv'
  BY <1>1, <1>8, LoopSafe, ReplySafe, ClaimSafe, CommitSafe, MarkSafe, SendSafe, OutcomeSafe
     DEF LineStep
<1> QED
  BY <1>2, <1>3, <1>4, <1>5, <1>6, <1>7, <1>8 DEF Next

(* The invariant holds of every reachable state, with activations if no    *)
(* two calls of the reconciliation overlap.                                *)
THEOREM InvariantHolds == ASSUME Scheduled PROVE Spec => []IInv
<1>1. IInv /\ [Next]_vars => IInv'
  BY SafeStep
<1> QED
  BY <1>1, SafeInit, PTL DEF Spec

(* A line is in its first or its second generation. *)
LEMMA Generations == ASSUME Archives, NEW l \in Lines PROVE Generation(l) = Older(l)
<1>1. Generation(l) = Cardinality(Old(l))
  BY DEF Generation, Old
<1>2. CASE Old(l) = {}
  BY <1>1, <1>2, FS_EmptySet DEF Older
<1>3. CASE Old(l) # {}
  <2>1. PICK e : e \in Old(l)
    BY <1>3
  <2>2. Old(l) = {e}
    BY <2>1 DEF Archives, Archive
  <2> QED
    BY <1>1, <1>3, <2>2, FS_Singleton DEF Older
<1> QED
  BY <1>2, <1>3

(* However many workers overlap, whenever they are ended and whatever      *)
(* answers are lost, the group receives at most one picture of a line and  *)
(* one more if the line was started over, as long as no order is activated *)
(* or no two calls of the reconciliation overlap.                          *)
THEOREM OneSheet == ASSUME Scheduled PROVE Spec => []OneSheetPerGeneration
<1>1. IInv => OneSheetPerGeneration
  <2> SUFFICES ASSUME IInv, NEW l \in Lines PROVE group[l].sheets <= 1 + Generation(l)
    BY DEF OneSheetPerGeneration
  <2>1. Generation(l) = Older(l) /\ group[l].sheets \in {Older(l), Older(l) + 1}
    BY Generations DEF IInv, Pictures, Picture
  <2>2. Older(l) \in {0, 1}
    BY DEF Older
  <2> QED
    BY <2>1, <2>2
<1> QED
  BY <1>1, InvariantHolds, PTL

-----------------------------------------------------------------------------
(* Refinement *)

(* The mapping without cardinalities *)
Mapped(l, g) ==
    /\ Phase(l, g) = IF g < Older(l) \/ (g = Older(l) /\ Committed(l)) THEN "claimed" ELSE "open"
    /\ Received(l, g) = IF g < Older(l) THEN 1
                        ELSE IF g = Older(l) THEN group[l].sheets - Older(l) ELSE 0

LEMMA SheetPhase == IInv => \A l \in Lines, g \in {0, 1} : Mapped(l, g)
<1> SUFFICES ASSUME IInv, NEW l \in Lines, NEW g \in {0, 1} PROVE Mapped(l, g)
  OBVIOUS
<1>1. Generation(l) = Older(l) /\ Older(l) \in {0, 1}
  BY Generations DEF Older, IInv
<1>2. CASE g < Older(l)
  BY <1>1, <1>2 DEF Mapped, Phase, Received
<1>3. CASE g = Older(l)
  BY <1>1, <1>3 DEF Mapped, Phase, Received
<1>4. CASE g > Older(l)
  BY <1>1, <1>4 DEF Mapped, Phase, Received
<1> QED
  BY <1>1, <1>2, <1>3, <1>4

LEMMA SheetPhaseNext == (IInv => \A l \in Lines, g \in {0, 1} : Mapped(l, g))'
BY SheetPhase, PTL

(* What a step may do to a line's current picture *)
SheetStep(l) ==
    \/ /\ Older(l)' = Older(l)
       /\ \/ (Committed(l)' <=> Committed(l)) /\ group'[l].sheets = group[l].sheets
          \/ ~Committed(l) /\ Committed(l)' /\ group'[l].sheets = group[l].sheets
          \/ /\ Committed(l) /\ Committed(l)'
             /\ group[l].sheets = Older(l) /\ group'[l].sheets = Older(l) + 1
    \/ /\ Older(l) = 0 /\ Older(l)' = 1 /\ Committed(l) /\ ~Committed(l)'
       /\ group[l].sheets = 1 /\ group'[l].sheets = 1

(* A step leaves a line alone, commits it, sends its picture, or starts it *)
(* over when its picture is out.                                           *)
LEMMA SheetSteps ==
  ASSUME Scheduled, IInv, IInv', [Next]_vars, NEW l \in Lines PROVE SheetStep(l)
<1>1. TablesTyped
  BY DEF IInv, TInv, TypeOK, TablesTyped, EvidenceType, LineType, QuestionStates, OrderType,
     GroupType
<1>2. ASSUME line'[l].state = line[l].state, group'[l].sheets = group[l].sheets, sent' = sent
      PROVE  SheetStep(l)
  BY <1>2 DEF SheetStep, Committed, Older, Old
<1>3. ASSUME NEW w \in Workers, SendVoid(w) PROVE SheetStep(l)
  <2>1. line' = line /\ group'[l].sheets = group[l].sheets /\ sent' = sent
    BY <1>1, <1>3 DEF SendVoid, TablesTyped, GroupType, tables
  <2> QED
    BY <1>2, <2>1
<1>4. ASSUME NEW w \in Workers, Supersede(w) PROVE SheetStep(l)
  <2>1. group' = group
    BY <1>4 DEF Supersede
  <2>2. CASE line'[l] = line[l] /\ Old(l)' = Old(l)
    BY <2>1, <2>2 DEF SheetStep, Committed, Older
  <2>3. CASE line[l].state = "sent" /\ line'[l] = NewLine /\ Old(l) = {} /\ Old(l)' # {}
    <3>1. Older(l) = 0 /\ Older(l)' = 1 /\ group[l].sheets = 1
      BY <2>3 DEF Older, IInv, Pictures, Picture
    <3>2. Committed(l) /\ ~Committed(l)'
      BY <2>3 DEF Committed, NewLine, FreeStates
    <3> QED
      BY <2>1, <3>1, <3>2 DEF SheetStep
  <2> QED
    BY <1>4, <2>2, <2>3, StartsOver
<1>5. ASSUME NEW w \in Workers, CommitClaim(w) PROVE SheetStep(l)
  <2>1. worker[w].on \in Lines /\ line[worker[w].on].state \in FreeStates
    BY <1>5 DEF CommitClaim, IInv, Held, Hand, Free, TInv, HasLine, HandSteps
  <2>2. group' = group /\ sent' = sent
        /\ (line'[l] = line[l] \/ (l = worker[w].on /\ line'[l].state = "rendering"))
    BY <1>1, <1>5 DEF CommitClaim, TablesTyped
  <2> QED
    BY <1>2, <2>1, <2>2 DEF SheetStep, Committed, Older, Old
<1>6. ASSUME NEW w \in Workers, MarkSending(w) PROVE SheetStep(l)
  <2>1. line[worker[w].on].state = "rendering" /\ worker[w].on \in Lines
    BY <1>6 DEF MarkSending, IInv, Held, Hand, TInv, HasLine, HandSteps
  <2>2. group' = group /\ sent' = sent
        /\ (line'[l] = line[l] \/ (l = worker[w].on /\ line'[l].state = "sending_image"))
    BY <1>1, <1>6, <2>1 DEF MarkSending, TablesTyped, LineType
  <2> QED
    BY <1>2, <2>1, <2>2 DEF SheetStep, Committed, FreeStates, Older, Old
<1>7. ASSUME NEW w \in Workers, RenderFails(w) PROVE SheetStep(l)
  <2>1. line[worker[w].on].state = "rendering" /\ worker[w].on \in Lines
    BY <1>7 DEF RenderFails, IInv, Held, Hand, TInv, HasLine, HandSteps
  <2>2. group' = group /\ sent' = sent
        /\ (line'[l] = line[l] \/ (l = worker[w].on /\ line'[l].state = "failed"))
    BY <1>1, <1>7, <2>1 DEF RenderFails, TablesTyped, LineType
  <2> QED
    BY <1>2, <2>1, <2>2 DEF SheetStep, Committed, FreeStates, Older, Old
<1>8. ASSUME NEW w \in Workers, SendImage(w) PROVE SheetStep(l)
  <2>1. PICK k \in Lines : k = worker[w].on
    BY <1>8 DEF SendImage, IInv, TInv, HasLine, HandSteps
  <2>2. line' = line /\ sent' = sent /\ line[k].state = "sending_image" /\ group[k].sheets = Older(k)
    BY <1>8, <2>1 DEF SendImage, tables, IInv, Held, Hand, SendSteps
  <2>3. Older(l)' = Older(l)
    BY <2>2 DEF Older, Old
  <2>4. group'[l] = group[l] \/ (l = k /\ group'[l].sheets \in {group[l].sheets, group[l].sheets + 1})
    <3>1. CASE group' = group
      BY <3>1
    <3>2. CASE group' = [group EXCEPT ![k].sheets = @ + 1, ![k].nos = @ \cup {worker[w].no}]
      BY <1>1, <3>2 DEF TablesTyped, GroupType
    <3> QED
      BY <1>8, <2>1, <3>1, <3>2 DEF SendImage
  <2>5. (Committed(l)' <=> Committed(l)) /\ (l = k => Committed(l))
    BY <2>2 DEF Committed, FreeStates
  <2> QED
    BY <2>2, <2>3, <2>4, <2>5 DEF SheetStep
<1>9. ASSUME NEW w \in Workers, Record(w) \/ SettleUnknown(w) PROVE SheetStep(l)
  <2>1. line[worker[w].on].state = "sending_image" /\ worker[w].on \in Lines
    BY <1>9 DEF Record, SettleUnknown, IInv, Held, Hand, SendSteps, TInv, HasLine, HandSteps
  <2>2. group' = group
        /\ (line'[l] = line[l] \/ (l = worker[w].on /\ line'[l].state \in {"sent", "uncertain"}))
    <3>1. CASE Record(w)
      BY <1>1, <2>1, <3>1 DEF Record, TablesTyped, LineType
    <3>2. CASE SettleUnknown(w)
      BY <1>1, <2>1, <3>2 DEF SettleUnknown, TablesTyped, LineType
    <3> QED
      BY <1>9, <3>1, <3>2
  <2>3. Older(l)' = Older(l)
    <3>1. CASE SettleUnknown(w)
      BY <3>1 DEF SettleUnknown, Older, Old
    <3>2. CASE Record(w)
      BY <3>2 DEF Record, Older, Old
    <3> QED
      BY <1>9, <3>1, <3>2
  <2>4. Committed(l)' <=> Committed(l)
    BY <2>1, <2>2 DEF Committed, FreeStates
  <2> QED
    BY <2>2, <2>3, <2>4 DEF SheetStep
<1>10. CASE line' = line /\ group' = group /\ sent' = sent
  BY <1>2, <1>10
<1>11. CASE UNCHANGED vars \/ Crash \/ \E k \in Lines : ChangeOrder(k)
  BY <1>10, <1>11 DEF vars, tables, Crash, ChangeOrder
<1>12. ASSUME NEW w \in Workers,
             \/ Start(w) \/ \E scope \in SUBSET Lines \ {{}} : Resume(w, scope)
             \/ \E k \in Lines : Reply(w, k) \/ ArchiveVoid(w, k)
       PROVE  SheetStep(l)
  BY <1>10, <1>12 DEF Start, Resume, Reply, ArchiveVoid, tables
<1>13. ASSUME NEW w \in Workers, VoidStep(w) PROVE SheetStep(l)
  BY <1>3, <1>10, <1>13 DEF VoidStep, ReadRefunds, RecordVoid, VoidFails, tables
<1>14. ASSUME NEW w \in Workers, LineStep(w) PROVE SheetStep(l)
  <2>1. CASE \/ ReadReceipts(w) \/ ReadLines(w) \/ Ask(w) \/ SendCard(w) \/ Finish(w)
             \/ \E k \in Lines : Skip(w, k) \/ Claim(w, k)
    BY <1>10, <2>1 DEF ReadReceipts, ReadLines, Ask, SendCard, Finish, Skip, Claim, tables
  <2>2. CASE SendReply(w) \/ \E k \in Lines : ClaimReply(w, k)
    BY <1>2, <2>2, ReplySteps DEF IInv
  <2> QED
    BY <1>5, <1>6, <1>7, <1>8, <1>9, <1>14, <2>1, <2>2 DEF LineStep
<1> QED
  BY <1>4, <1>11, <1>12, <1>13, <1>14 DEF Next

(* The sheet delivery implements the one-shot action: each picture is      *)
(* claimed before it is sent, the claim is never given back once the chat  *)
(* may have been called, and the chat sees it at most once in each         *)
(* generation of the line, as long as no order is activated or no two      *)
(* calls of the reconciliation overlap.                                    *)
THEOREM SheetsRefineOneShot == ASSUME Scheduled PROVE Spec => SheetIsOneShot
<1> DEFINE phases == [t \in Sheets |-> Phase(t[1], t[2])]
           effects == [t \in Sheets |-> Received(t[1], t[2])]
<1>1. Init => Sheet!Init
  <2> SUFFICES ASSUME Init PROVE Sheet!Init
    OBVIOUS
  <2>1. IInv /\ \A l \in Lines : ~Committed(l) /\ group[l].sheets = 0 /\ Older(l) = 0
    BY SafeInit DEF Init, Committed, NewLine, FreeStates, Older, Old
  <2>2. ASSUME NEW t \in Sheets PROVE Phase(t[1], t[2]) = "open" /\ Received(t[1], t[2]) = 0
    <3>1. t[1] \in Lines /\ t[2] \in {0, 1}
      BY DEF Sheets
    <3> QED
      BY <2>1, <3>1, SheetPhase DEF Mapped
  <2> QED
    BY <2>2 DEF Sheet!Init
<1>2. IInv /\ IInv' /\ [Next]_vars => [Sheet!Next]_(Sheet!vars)
  <2> SUFFICES ASSUME IInv, IInv', [Next]_vars PROVE Sheet!Next
    OBVIOUS
  <2> SUFFICES ASSUME NEW t \in Sheets PROVE Sheet!Keep(t) \/ Sheet!Claim(t) \/ Sheet!Act(t)
    BY DEF Sheet!Next
  <2>1. PICK l \in Lines, g \in {0, 1} : t[1] = l /\ t[2] = g
    BY DEF Sheets
  <2>2. /\ phases[t] = Phase(l, g) /\ effects[t] = Received(l, g)
        /\ phases'[t] = Phase(l, g)' /\ effects'[t] = Received(l, g)'
    BY <2>1
  <2>3. /\ group[l].sheets \in Nat /\ group'[l].sheets \in Nat
        /\ group[l].sheets \in {Older(l), Older(l) + 1}
        /\ ~Committed(l) => group[l].sheets = Older(l)
    BY DEF IInv, TInv, TypeOK, Pictures, Picture
  <2>4. Mapped(l, g) /\ Mapped(l, g)'
    BY SheetPhase, SheetPhaseNext
  <2>5. SheetStep(l) /\ Older(l) \in {0, 1} /\ Older(l)' \in {0, 1}
    BY SheetSteps DEF Older
  <2> HIDE DEF phases, effects
  <2>6. \/ phases'[t] = phases[t] /\ effects'[t] = effects[t]
        \/ phases[t] = "open" /\ phases'[t] = "claimed" /\ effects'[t] = effects[t]
        \/ phases[t] = "claimed" /\ phases'[t] = "claimed" /\ effects[t] = 0 /\ effects'[t] = 1
    <3>1. CASE Older(l)' = Older(l) /\ g # Older(l)
      BY <2>2, <2>4, <3>1 DEF Mapped
    <3>2. CASE Older(l)' = Older(l) /\ g = Older(l)
      <4>1. /\ phases[t] = (IF Committed(l) THEN "claimed" ELSE "open")
            /\ phases'[t] = (IF Committed(l)' THEN "claimed" ELSE "open")
        BY <2>2, <2>4, <2>5, <3>2 DEF Mapped
      <4>2. effects[t] = group[l].sheets - g /\ effects'[t] = group'[l].sheets - g
        BY <2>2, <2>4, <2>5, <3>2 DEF Mapped
      <4> QED
        BY <2>3, <2>5, <3>2, <4>1, <4>2 DEF SheetStep
    <3>3. CASE Older(l)' # Older(l)
      <4>1. /\ Older(l) = 0 /\ Older(l)' = 1 /\ Committed(l) /\ ~Committed(l)'
            /\ group[l].sheets = 1 /\ group'[l].sheets = 1
        BY <2>5, <3>3 DEF SheetStep
      <4> QED
        BY <2>2, <2>4, <4>1 DEF Mapped
    <3> QED
      BY <3>1, <3>2, <3>3
  <2> QED
    BY <2>6 DEF Sheet!Keep, Sheet!Claim, Sheet!Act, phases, effects
<1>3. IInv /\ [Next]_vars => IInv'
  BY SafeStep
<1> QED
  BY <1>1, <1>2, <1>3, SafeInit, PTL DEF Spec, SheetIsOneShot, Sheet!Spec

-----------------------------------------------------------------------------
(* Withdrawals *)

CardSteps == {"void", "void_card", "void_answered"}

VoidSteps == {"supersede", "refunds"} \cup CardSteps

(* The notices that worker w may still send of line l *)
Withdraws(w, l) ==
    \/ worker[w].at \in CardSteps /\ l \in worker[w].todo
    \/ worker[w].at = "void_card" /\ worker[w].on = l

Pending(l) == {w \in Callers : Withdraws(w, l)}

Withdrawing(w) ==
    LET me == worker[w]
    IN  /\ me.at \in VoidSteps => w \in Callers
        /\ me.at \in {"void_card", "void_answered"} => void[me.on] # "none"
        /\ me.at = "void_card" => me.on \notin me.todo

(* A line without an archived notice has had none; once there is one, only *)
(* the calls that read the line before that may send another.              *)
Notice(l) ==
    IF void[l] = "none" THEN group[l].voids = 0
    ELSE group[l].voids + Cardinality(Pending(l)) <= Cardinality(Callers)

VInv == TInv /\ (\A w \in Workers : Withdrawing(w)) /\ \A l \in Lines : Notice(l)

(* Callers are finitely many. *)
LEMMA PendingCounts ==
  ASSUME NEW S, NEW T, S \subseteq T, T \subseteq Callers
  PROVE  /\ IsFiniteSet(T) /\ Cardinality(S) \in Nat /\ Cardinality(T) \in Nat
         /\ Cardinality(S) <= Cardinality(T)
<1>1. IsFiniteSet(T)
  BY FS_Subset, SheetAssumption
<1> QED
  BY <1>1, FS_Subset, FS_CardinalityType

(* The other workers keep what they are at. *)
LEMMA OthersWithdraw ==
  ASSUME VInv, NEW w \in Workers, Others(w), NEW v \in Workers \ {w},
         \A l \in Lines : void[l] # "none" => void'[l] # "none"
  PROVE  Withdrawing(v)' /\ \A l \in Lines : Withdraws(v, l)' = Withdraws(v, l)
<1>1. worker'[v] = worker[v] /\ Withdrawing(v)
      /\ (worker[v].at \in {"void_card", "void_answered"} => worker[v].on \in Lines)
  BY DEF Others, VInv, TInv, HasLine, HandSteps
<1> QED
  BY <1>1 DEF Withdrawing, Withdraws

(* A step that sends no notice and starts no withdrawal of a line that has *)
(* one.                                                                    *)
LEMMA NoMoreNotices ==
  ASSUME VInv, TInv', NEW w \in Workers, Others(w), Withdrawing(w)',
         \A l \in Lines : void'[l] = "none" <=> void[l] = "none",
         \A l \in Lines : group'[l].voids = group[l].voids,
         \A l \in Lines : void[l] # "none" /\ Withdraws(w, l)' => Withdraws(w, l)
  PROVE  VInv'
<1>1. ASSUME NEW v \in Workers \ {w}
      PROVE  Withdrawing(v)' /\ \A l \in Lines : Withdraws(v, l)' = Withdraws(v, l)
  BY OthersWithdraw
<1>2. ASSUME NEW l \in Lines PROVE Notice(l)'
  <2>1. Notice(l) /\ group[l].voids \in Nat
    BY DEF VInv, TInv, TypeOK
  <2>2. CASE void[l] = "none"
    BY <2>1, <2>2 DEF Notice
  <2>3. CASE void[l] # "none"
    <3>1. \A v \in Callers : Withdraws(v, l)' => Withdraws(v, l)
      BY <1>1, <2>3, SheetAssumption
    <3>2. Pending(l)' \subseteq Pending(l) /\ Pending(l) \subseteq Callers
      BY <3>1 DEF Pending
    <3>3. /\ Cardinality(Pending(l)') \in Nat /\ Cardinality(Pending(l)) \in Nat
          /\ Cardinality(Pending(l)') <= Cardinality(Pending(l)) /\ Cardinality(Callers) \in Nat
      BY <3>2, PendingCounts
    <3>4. group[l].voids + Cardinality(Pending(l)) <= Cardinality(Callers)
      BY <2>1, <2>3 DEF Notice
    <3>5. group[l].voids + Cardinality(Pending(l)') <= Cardinality(Callers)
      BY <2>1, <3>3, <3>4
    <3>6. Notice(l)' = (group'[l].voids + Cardinality(Pending(l)') <= Cardinality(Callers))
      BY <2>3 DEF Notice
    <3> QED
      BY <3>5, <3>6
  <2> QED
    BY <2>2, <2>3
<1> QED
  BY <1>1, <1>2 DEF VInv

(* A worker outside the withdrawals that stays outside, or begins a call. *)
LEMMA NoWithdrawal ==
  ASSUME VInv, TInv', NEW w \in Workers, Others(w), void' = void,
         \A l \in Lines : group'[l].voids = group[l].voids,
         worker'[w].at \in Steps \ CardSteps,
         worker'[w].at \in VoidSteps => w \in Callers
  PROVE  VInv'
<1>1. Withdrawing(w)' /\ \A l \in Lines : ~Withdraws(w, l)'
  BY DEF Withdrawing, Withdraws, CardSteps
<1> QED
  BY <1>1, NoMoreNotices

(* The notice is archived: the calls that have read the line by then are   *)
(* the only ones that may send one.                                        *)
LEMMA ArchivesNotice ==
  ASSUME VInv, TInv', NEW w \in Workers, NEW l \in Lines, ArchiveVoid(w, l) PROVE VInv'
<1>1. worker \in [Workers -> WorkerType] /\ worker[w] \in WorkerType /\ TablesTyped
  BY WorkerShape DEF VInv
<1>2. worker'[w].at = "void_card" /\ worker'[w].on = l /\ worker'[w].todo = worker[w].todo \ {l}
  BY <1>1 DEF ArchiveVoid, WorkerType
<1>3. void'[l] = "unknown" /\ (\A k \in Lines \ {l} : void'[k] = void[k]) /\ group' = group
  BY <1>1 DEF ArchiveVoid, TablesTyped
<1>4. worker[w].at = "void" /\ l \in worker[w].todo /\ Others(w)
  BY <1>1 DEF ArchiveVoid, Others
<1>5. w \in Callers
  BY <1>4 DEF VInv, Withdrawing, VoidSteps, CardSteps
<1>6. Withdrawing(w)'
  BY <1>2, <1>3, <1>5 DEF Withdrawing
<1>7. ASSUME NEW v \in Workers \ {w}
      PROVE  Withdrawing(v)' /\ \A k \in Lines : Withdraws(v, k)' = Withdraws(v, k)
  <2>1. \A k \in Lines : void[k] # "none" => void'[k] # "none"
    BY <1>3
  <2> QED
    BY <1>4, <2>1, OthersWithdraw
<1>8. \A k \in Lines : Withdraws(w, k)' = Withdraws(w, k)
  BY <1>2, <1>4 DEF Withdraws, CardSteps
<1>9. \A k \in Lines : Pending(k)' = Pending(k)
  BY <1>7, <1>8, SheetAssumption DEF Pending
<1>10. ASSUME NEW k \in Lines \ {l} PROVE Notice(k)'
  BY <1>3, <1>9 DEF VInv, Notice
<1>11. Notice(l)'
  <2>1. CASE void[l] = "none"
    <3>1. group'[l].voids = 0
      BY <1>3, <2>1 DEF VInv, Notice
    <3>2. Cardinality(Pending(l)) \in Nat /\ Cardinality(Pending(l)) <= Cardinality(Callers)
          /\ Cardinality(Callers) \in Nat
      <4>1. Pending(l) \subseteq Callers
        BY DEF Pending
      <4> QED
        BY <4>1, PendingCounts
    <3>3. 0 + Cardinality(Pending(l)') <= Cardinality(Callers)
      BY <1>9, <3>2
    <3> QED
      BY <1>3, <3>1, <3>3 DEF Notice
  <2>2. CASE void[l] # "none"
    BY <1>3, <1>9, <2>2 DEF VInv, Notice
  <2> QED
    BY <2>1, <2>2
<1> QED
  BY <1>6, <1>7, <1>10, <1>11 DEF VInv

(* The notice goes out or not: one that could be sent less. *)
LEMMA SendsNotice ==
  ASSUME VInv, TInv', NEW w \in Workers, SendVoid(w) PROVE VInv'
<1>1. worker \in [Workers -> WorkerType] /\ worker[w] \in WorkerType /\ TablesTyped
      /\ (worker[w].at \in HandSteps => worker[w].on \in Lines)
  BY WorkerShape DEF VInv
<1>2. PICK l \in Lines : l = worker[w].on
  BY <1>1 DEF SendVoid, HandSteps
<1>3. worker[w].at = "void_card" /\ void[l] # "none" /\ l \notin worker[w].todo /\ w \in Callers
  BY <1>2 DEF SendVoid, VInv, Withdrawing, VoidSteps, CardSteps
<1>4. worker'[w].at \in {"void_answered", "void"} /\ worker'[w].on = l
      /\ worker'[w].todo = worker[w].todo /\ void' = void /\ Others(w)
  BY <1>1, <1>2 DEF SendVoid, WorkerType, tables, Others
<1>5. /\ group'[l].voids \in {group[l].voids, group[l].voids + 1} /\ group[l].voids \in Nat
      /\ \A k \in Lines \ {l} : group'[k] = group[k]
  <2>1. group[l].voids \in Nat
    BY <1>1 DEF TablesTyped, GroupType
  <2>2. CASE group' = group
    BY <2>1, <2>2
  <2>3. CASE group' = [group EXCEPT ![l].voids = @ + 1]
    BY <1>1, <2>1, <2>3 DEF TablesTyped, GroupType
  <2> QED
    BY <1>2, <2>2, <2>3 DEF SendVoid
<1>6. Withdrawing(w)'
  BY <1>3, <1>4 DEF Withdrawing
<1>7. ASSUME NEW v \in Workers \ {w}
      PROVE  Withdrawing(v)' /\ \A k \in Lines : Withdraws(v, k)' = Withdraws(v, k)
  BY <1>4, OthersWithdraw
<1>8. Withdraws(w, l) /\ ~Withdraws(w, l)' /\ \A k \in Lines \ {l} : Withdraws(w, k)' = Withdraws(w, k)
  BY <1>2, <1>3, <1>4 DEF Withdraws, CardSteps
<1>9. Pending(l)' = Pending(l) \ {w} /\ w \in Pending(l) /\ Pending(l) \subseteq Callers
  BY <1>3, <1>7, <1>8, SheetAssumption DEF Pending
<1>10. ASSUME NEW k \in Lines \ {l} PROVE Notice(k)'
  <2>1. Pending(k)' = Pending(k)
    BY <1>7, <1>8, SheetAssumption DEF Pending
  <2> QED
    BY <1>4, <1>5, <2>1 DEF VInv, Notice
<1>11. Notice(l)'
  <2>1. IsFiniteSet(Pending(l)) /\ Cardinality(Pending(l)) \in Nat /\ Cardinality(Callers) \in Nat
    BY <1>9, PendingCounts
  <2>2. Cardinality(Pending(l)') = Cardinality(Pending(l)) - 1
    BY <1>9, <2>1, FS_RemoveElement
  <2>3. group[l].voids + Cardinality(Pending(l)) <= Cardinality(Callers)
    BY <1>3 DEF VInv, Notice
  <2>4. group'[l].voids + Cardinality(Pending(l)') <= Cardinality(Callers)
    BY <1>5, <2>1, <2>2, <2>3
  <2> QED
    BY <1>3, <1>4, <2>4 DEF Notice
<1> QED
  BY <1>6, <1>7, <1>10, <1>11 DEF VInv

(* The other steps of the withdrawals *)
LEMMA VoidOnce ==
  ASSUME VInv, TInv', NEW w \in Workers,
         ReadRefunds(w) \/ RecordVoid(w) \/ \E l \in Lines : VoidFails(w, l)
  PROVE  VInv'
<1>1. worker \in [Workers -> WorkerType] /\ worker[w] \in WorkerType /\ TablesTyped
      /\ (worker[w].at \in HandSteps => worker[w].on \in Lines)
  BY WorkerShape DEF VInv
<1>2. Others(w) /\ group' = group
  BY <1>1 DEF Others, ReadRefunds, RecordVoid, VoidFails, tables
<1>3. worker'[w].at = "void" /\ w \in Callers
  <2>1. worker[w].at \in VoidSteps
    BY DEF ReadRefunds, RecordVoid, VoidFails, VoidSteps, CardSteps
  <2>2. w \in Callers
    BY <2>1 DEF VInv, Withdrawing
  <2>3. worker'[w].at = "void"
    BY <1>1 DEF ReadRefunds, RecordVoid, VoidFails, WorkerType
  <2> QED
    BY <2>2, <2>3
<1>4. Withdrawing(w)'
  BY <1>3 DEF Withdrawing
<1>5. CASE ReadRefunds(w)
  <2> DEFINE todo == Lowest({l \in SentLines : order[l].refunded /\ void[l] = "none"})
  <2>1. worker'[w].todo = todo
    BY <1>1, <1>5 DEF ReadRefunds, WorkerType
  <2>2. \A l \in todo : void[l] = "none"
    BY DEF Lowest
  <2> HIDE DEF todo
  <2>3. void' = void
    BY <1>5 DEF ReadRefunds, tables
  <2>4. \A l \in Lines : void[l] # "none" => ~Withdraws(w, l)'
    BY <1>3, <2>1, <2>2 DEF Withdraws
  <2> QED
    BY <1>2, <1>4, <2>3, <2>4, NoMoreNotices
<1>6. ASSUME NEW k \in Lines, VoidFails(w, k) PROVE VInv'
  <2>1. worker'[w].todo \subseteq worker[w].todo /\ void' = void /\ worker[w].at = "void"
    BY <1>1, <1>6 DEF VoidFails, WorkerType, tables
  <2>2. \A l \in Lines : Withdraws(w, l)' => Withdraws(w, l)
    BY <1>3, <2>1 DEF Withdraws, CardSteps
  <2> QED
    BY <1>2, <1>4, <2>1, <2>2, NoMoreNotices
<1>7. CASE RecordVoid(w)
  <2>1. PICK k \in Lines : k = worker[w].on
    BY <1>1, <1>7 DEF RecordVoid, HandSteps
  <2>2. worker'[w].todo = worker[w].todo /\ worker[w].at = "void_answered"
    BY <1>1, <1>7 DEF RecordVoid, WorkerType
  <2>3. void[k] # "none"
    BY <2>1, <2>2 DEF VInv, Withdrawing
  <2>4. \A l \in Lines : void'[l] = "none" <=> void[l] = "none"
    BY <1>1, <1>7, <2>1, <2>3 DEF RecordVoid, TablesTyped
  <2>5. \A l \in Lines : Withdraws(w, l)' => Withdraws(w, l)
    BY <1>3, <2>2 DEF Withdraws, CardSteps
  <2> QED
    BY <1>2, <1>4, <2>4, <2>5, NoMoreNotices
<1> QED
  BY <1>5, <1>6, <1>7

(* Calls that begin *)
LEMMA BeginNoNotice ==
  ASSUME VInv, TInv', NEW w \in Workers,
         \/ Start(w) \/ Supersede(w)
         \/ \E scope \in SUBSET Lines \ {{}} : Resume(w, scope)
         \/ \E l \in Lines : Reply(w, l)
  PROVE  VInv'
<1>1. worker \in [Workers -> WorkerType] /\ worker[w] \in WorkerType
  BY WorkerShape DEF VInv
<1>2. void' = void /\ group' = group
  BY DEF Start, Supersede, Resume, Reply, tables
<1>3. ASSUME NEW x, worker' = [worker EXCEPT ![w] = x],
             x.at \in {"idle", "pending"} \/ (x.at \in {"supersede", "refunds"} /\ w \in Callers)
      PROVE  VInv'
  <2>1. Others(w) /\ worker'[w] = x
    BY <1>1, <1>3 DEF Others
  <2>2. worker'[w].at \in Steps \ CardSteps /\ (worker'[w].at \in VoidSteps => w \in Callers)
    BY <1>3, <2>1 DEF Steps, VoidSteps, CardSteps
  <2> QED
    BY <1>2, <2>1, <2>2, NoWithdrawal
<1>4. CASE Start(w)
  <2> DEFINE stale == {l \in SentLines : \A e \in Evidence(l) : ~e.activated}
             x == [Idle EXCEPT !.at = "supersede", !.todo = stale,
                               !.known = UNION {Evidence(l) : l \in stale}]
  <2>1. worker' = [worker EXCEPT ![w] = x] /\ w \in Callers
    BY <1>4 DEF Start, Begin
  <2>2. x.at = "supersede"
    BY DEF Idle
  <2> HIDE DEF x
  <2> QED
    BY <1>3, <2>1, <2>2
<1>5. CASE Supersede(w)
  <2> DEFINE x == [Idle EXCEPT !.at = "refunds"]
  <2>1. worker' = [worker EXCEPT ![w] = x] /\ worker[w].at = "supersede"
    BY <1>5 DEF Supersede
  <2>2. x.at = "refunds" /\ w \in Callers
    BY <2>1 DEF Idle, VInv, Withdrawing, VoidSteps
  <2> HIDE DEF x
  <2> QED
    BY <1>3, <2>1, <2>2
<1>6. ASSUME NEW scope \in SUBSET Lines, Resume(w, scope) PROVE VInv'
  <2> DEFINE x == [Idle EXCEPT !.at = "pending",
                               !.todo = {l \in scope \ SentLines : Free(l) /\ Eligible(l)}]
  <2>1. worker' = [worker EXCEPT ![w] = x]
    BY <1>6 DEF Resume, Begin
  <2>2. x.at = "pending"
    BY DEF Idle
  <2> HIDE DEF x
  <2> QED
    BY <1>3, <2>1, <2>2
<1>7. ASSUME NEW l \in Lines, Reply(w, l) PROVE VInv'
  <2>1. CASE Begin(w, [Idle EXCEPT !.at = "pending", !.todo = {l}])
    <3> DEFINE x == [Idle EXCEPT !.at = "pending", !.todo = {l}]
    <3>1. worker' = [worker EXCEPT ![w] = x]
      BY <2>1 DEF Begin
    <3>2. x.at = "pending"
      BY DEF Idle
    <3> HIDE DEF x
    <3> QED
      BY <1>3, <3>1, <3>2
  <2>2. CASE worker' = worker /\ worker[w].at = "idle"
    <3>1. Others(w) /\ worker'[w].at \in Steps \ CardSteps
          /\ (worker'[w].at \in VoidSteps => w \in Callers)
      BY <2>2 DEF Others, Steps, VoidSteps, CardSteps
    <3> QED
      BY <1>2, <3>1, NoWithdrawal
  <2> QED
    BY <1>7, <2>1, <2>2 DEF Reply
<1> QED
  BY <1>4, <1>5, <1>6, <1>7

(* The lines: what they send is no notice. *)
LEMMA LinesNoNotice ==
  ASSUME VInv, TInv', NEW w \in Workers, LineStep(w) PROVE VInv'
<1>1. /\ Others(w) /\ void' = void
      /\ \A l \in Lines : group'[l].voids = group[l].voids
      /\ worker'[w].at \in LoopSteps \cup {"reply", "card"}
  <2>1. CASE SendReply(w) \/ \E l \in Lines : ClaimReply(w, l)
    BY <2>1, ReplySteps DEF VInv, LoopSteps
  <2>2. CASE Ask(w) \/ SendCard(w)
    BY <2>2, AskSteps DEF VInv, LoopSteps
  <2>3. CASE ~(\/ SendReply(w) \/ Ask(w) \/ SendCard(w) \/ \E l \in Lines : ClaimReply(w, l))
    BY <2>3, LoopFrame DEF VInv, LineStep
  <2> QED
    BY <2>1, <2>2, <2>3
<1>2. LoopSteps \cup {"reply", "card"} \subseteq Steps \ VoidSteps
  BY DEF LoopSteps, Steps, VoidSteps, CardSteps
<1> QED
  BY <1>1, <1>2, NoWithdrawal DEF VoidSteps

(* Whatever calls overlap, whenever they are ended and whatever answers    *)
(* are lost: a line is withdrawn once by each of the callers that had read *)
(* it before its first notice was archived, at most, and by nobody later.  *)
(* With one caller that is one notice.                                     *)
THEOREM OneNotice == Spec => []OneVoidNotice
<1>1. Init => VInv
  <2> SUFFICES ASSUME Init PROVE VInv
    OBVIOUS
  <2>1. TInv /\ \A w \in Workers : worker[w].at = "idle"
    BY TypesInit DEF Init, Idle
  <2>2. \A l \in Lines : Notice(l)
    BY DEF Init, Notice
  <2> QED
    BY <2>1, <2>2 DEF VInv, Withdrawing, VoidSteps, CardSteps
<1>2. VInv /\ [Next]_vars => VInv'
  <2> SUFFICES ASSUME VInv, [Next]_vars PROVE VInv'
    OBVIOUS
  <2>1. TInv'
    BY TypesStep DEF VInv
  <2>2. ASSUME void' = void, group' = group,
               worker' = worker \/ \A w \in Workers : worker'[w].at = "idle"
        PROVE  VInv'
    <3>1. \A w \in Workers : Withdrawing(w)'
      BY <2>2 DEF VInv, Withdrawing, VoidSteps, CardSteps
    <3>2. ASSUME NEW l \in Lines PROVE Notice(l)'
      <4>1. Pending(l)' \subseteq Pending(l) /\ Pending(l) \subseteq Callers
        BY <2>2, SheetAssumption DEF Pending, Withdraws, CardSteps
      <4>2. /\ Cardinality(Pending(l)') \in Nat /\ Cardinality(Pending(l)) \in Nat
            /\ Cardinality(Pending(l)') <= Cardinality(Pending(l)) /\ Cardinality(Callers) \in Nat
        BY <4>1, PendingCounts
      <4>3. Notice(l) /\ group[l].voids \in Nat
        BY DEF VInv, TInv, TypeOK
      <4>4. CASE void[l] = "none"
        BY <2>2, <4>3, <4>4 DEF Notice
      <4>5. CASE void[l] # "none"
        <5>1. group[l].voids + Cardinality(Pending(l)') <= Cardinality(Callers)
          BY <4>2, <4>3, <4>5 DEF Notice
        <5> QED
          BY <2>2, <4>5, <5>1 DEF Notice
      <4> QED
        BY <4>4, <4>5
    <3> QED
      BY <2>1, <3>1, <3>2 DEF VInv
  <2>3. CASE Crash
    <3>1. (\A w \in Workers : worker'[w].at = "idle") /\ void' = void /\ group' = group
      BY <2>3 DEF Crash, Idle, tables
    <3> QED
      BY <2>2, <3>1
  <2>4. CASE UNCHANGED vars \/ \E l \in Lines : ChangeOrder(l)
    <3>1. worker' = worker /\ void' = void /\ group' = group
      BY <2>4 DEF vars, tables, ChangeOrder
    <3> QED
      BY <2>2, <3>1
  <2>5. ASSUME NEW w \in Workers, VoidStep(w) \/ \E l \in Lines : ArchiveVoid(w, l) PROVE VInv'
    BY <2>1, <2>5, VoidOnce, SendsNotice, ArchivesNotice DEF VoidStep
  <2> QED
    BY <2>1, <2>3, <2>4, <2>5, BeginNoNotice, LinesNoNotice DEF Next
<1>3. VInv => OneVoidNotice
  <2> SUFFICES ASSUME VInv, NEW l \in Lines PROVE group[l].voids <= Cardinality(Callers)
    BY DEF OneVoidNotice
  <2>1. Notice(l) /\ group[l].voids \in Nat
    BY DEF VInv, TInv, TypeOK
  <2>2. Cardinality(Pending(l)) \in Nat /\ Cardinality(Callers) \in Nat
    <3>1. Pending(l) \subseteq Callers
      BY DEF Pending
    <3> QED
      BY <3>1, PendingCounts
  <2> QED
    BY <2>1, <2>2 DEF Notice
<1> QED
  BY <1>1, <1>2, <1>3, PTL DEF Spec

-----------------------------------------------------------------------------
(* Numbers *)

(* No two rows have one number. *)
Unique == \A k, l \in Lines : k # l /\ line[k].no = line[l].no => line[k].no = 0

(* Two workers never hold one row claimed but not committed. *)
OneClaim ==
    \A v, w \in Workers :
      v # w /\ worker[v].at = "claimed" /\ worker[w].at = "claimed" => worker[v].on # worker[w].on

(* As long as no evidence of a line was superseded, a worker that is to    *)
(* show it has the number of its row, and one that is to give it a number  *)
(* finds none in it or that same one.                                      *)
Numbered(w) ==
    LET me == worker[w]
    IN  /\ me.at = "claimed" => me.no # 0
        /\ \A l \in Lines : me.on = l /\ Old(l) = {} =>
             /\ me.at = "claimed" /\ line[l].no # 0 => me.no = line[l].no
             /\ me.at \in {"render", "send"} => me.no = line[l].no /\ me.no # 0

(* What a caller has read in order to supersede it is there, by now        *)
(* superseded or not: a row is started over only with superseded evidence. *)
Withdrawn(e) == [e EXCEPT !.superseded = TRUE]

Marks(w) ==
    worker[w].at = "supersede" =>
      \A l \in worker[w].todo :
        \E e \in worker[w].known : e.line = l /\ (e \in sent \/ Withdrawn(e) \in sent)

(* The group has seen such a line under the number of its row only. *)
Shown(l) == Old(l) = {} => \A n \in group[l].nos : n = line[l].no /\ n # 0

NInv ==
    /\ TInv /\ IsFiniteSet(sent) /\ Unique /\ OneClaim
    /\ \A w \in Workers : Numbered(w) /\ Marks(w)
    /\ \A l \in Lines : Shown(l)

(* A step that numbers nothing, shows nothing and supersedes nothing. *)
LEMMA NumbersNothing ==
  ASSUME NInv, TInv', NEW w \in Workers, Others(w), IsFiniteSet(sent'), sent \subseteq sent',
         \A l \in Lines : /\ Old(l)' = Old(l) /\ line'[l].no = line[l].no
                          /\ group'[l].nos = group[l].nos,
         worker'[w].at \notin {"claimed", "render", "supersede"},
         worker'[w].at = "send" => /\ worker[w].at = "render" /\ worker'[w].on = worker[w].on
                                   /\ worker'[w].no = worker[w].no
  PROVE  NInv'
<1>1. Unique' /\ \A l \in Lines : Shown(l)'
  BY DEF NInv, Unique, Shown
<1>2. OneClaim'
  BY DEF NInv, OneClaim, Others
<1>3. Numbered(w)' /\ Marks(w)'
  BY DEF NInv, Numbered, Marks
<1>4. ASSUME NEW v \in Workers \ {w} PROVE Numbered(v)' /\ Marks(v)'
  <2>1. worker'[v] = worker[v] /\ Numbered(v) /\ Marks(v)
    BY DEF NInv, Others
  <2> QED
    BY <2>1 DEF Numbered, Marks
<1> QED
  BY <1>1, <1>2, <1>3, <1>4 DEF NInv

(* The evidence that a caller reads is there. *)
LEMMA StartMarks ==
  ASSUME NInv, TInv', NEW w \in Workers, Start(w) PROVE NInv'
<1>1. worker \in [Workers -> WorkerType]
  BY WorkerShape DEF NInv
<1> DEFINE stale == {l \in SentLines : \A e \in Evidence(l) : ~e.activated}
           x == [Idle EXCEPT !.at = "supersede", !.todo = stale,
                             !.known = UNION {Evidence(l) : l \in stale}]
<1>2. worker'[w] = x
  BY <1>1 DEF Start, Begin
<1>3. x.at = "supersede" /\ x.todo = stale /\ x.known = UNION {Evidence(l) : l \in stale}
  BY DEF Idle
<1>4. \A l \in stale : \E e \in Evidence(l) : e \in sent /\ e.line = l
  BY DEF SentLines, Evidence
<1> HIDE DEF x, stale
<1>5. Others(w) /\ UNCHANGED <<line, sent, group>>
  BY BeginSteps DEF NInv, Start, tables
<1>6. \A l \in Lines : Old(l)' = Old(l)
  BY <1>5 DEF Old
<1>7. Marks(w)'
  BY <1>2, <1>3, <1>4, <1>5 DEF Marks
<1>8. Numbered(w)'
  BY <1>2, <1>3 DEF Numbered
<1>9. ASSUME NEW v \in Workers \ {w} PROVE Numbered(v)' /\ Marks(v)'
  <2>1. worker'[v] = worker[v] /\ Numbered(v) /\ Marks(v)
    BY <1>5 DEF NInv, Others
  <2> QED
    BY <1>5, <1>6, <2>1 DEF Numbered, Marks
<1>10. OneClaim'
  BY <1>2, <1>3, <1>5 DEF NInv, OneClaim, Others
<1>11. Unique' /\ \A l \in Lines : Shown(l)'
  BY <1>5, <1>6 DEF NInv, Unique, Shown
<1> QED
  BY <1>5, <1>7, <1>8, <1>9, <1>10, <1>11 DEF NInv

(* A row that is started over has superseded evidence. *)
LEMMA SupersedeMarks ==
  ASSUME NInv, TInv', NEW w \in Workers, Supersede(w) PROVE NInv'
<1> DEFINE reset == {k \in worker[w].todo : order[k].hold = "activated" /\ ~order[k].refunded}
           known == worker[w].known
           new(e) == IF e \in known /\ e.line \in reset THEN Withdrawn(e) ELSE e
<1>1. sent' = {new(e) : e \in sent} /\ line' = [l \in Lines |-> IF l \in reset THEN NewLine ELSE line[l]]
  BY DEF Supersede, Withdrawn
<1>2. sent \subseteq EvidenceType /\ known \subseteq EvidenceType
  BY DEF NInv, TInv, TypeOK, EvidenceType
<1>3. \A e \in EvidenceType : /\ Withdrawn(e).superseded /\ Withdrawn(e).line = e.line
                              /\ Withdrawn(Withdrawn(e)) = Withdrawn(e)
                              /\ e.superseded => Withdrawn(e) = e
  BY DEF EvidenceType, Withdrawn
<1>4. \A e \in sent : new(e) = e \/ new(e) = Withdrawn(e)
  OBVIOUS
<1>5. /\ Others(w) /\ worker'[w].at = "refunds" /\ UNCHANGED <<order, group>>
      /\ worker[w].at = "supersede"
  <2>1. worker \in [Workers -> WorkerType]
    BY WorkerShape DEF NInv
  <2>2. worker'[w].at = "refunds"
    BY <2>1 DEF Supersede, Idle
  <2> QED
    BY <2>2, BeginSteps DEF NInv, Supersede
<1>6. IsFiniteSet(sent')
  <2> DEFINE f == [e \in sent |-> new(e)]
  <2>1. f \in Surjection(sent, sent')
    BY <1>1 DEF Surjection
  <2> QED
    BY <2>1, FS_Surjection DEF NInv
<1>7. ASSUME NEW e \in EvidenceType, e \in sent \/ Withdrawn(e) \in sent
      PROVE  e \in sent' \/ Withdrawn(e) \in sent'
  <2>1. CASE e \in sent
    <3>1. new(e) \in sent'
      BY <1>1, <2>1
    <3> QED
      BY <1>4, <2>1, <3>1
  <2>2. CASE Withdrawn(e) \in sent
    <3>1. new(Withdrawn(e)) \in sent'
      BY <1>1, <2>2
    <3>2. new(Withdrawn(e)) = Withdrawn(e)
      BY <1>3
    <3> QED
      BY <3>1, <3>2
  <2> QED
    BY <1>7, <2>1, <2>2
<1>8. ASSUME NEW l \in Lines, Old(l)' = {} PROVE Old(l) = {} /\ line'[l] = line[l]
  <2>1. ASSUME NEW e \in sent, e.line = l, e.superseded PROVE FALSE
    <3>1. new(e) = e
      BY <1>2, <1>3, <1>4, <2>1
    <3>2. e \in sent'
      BY <1>1, <3>1
    <3> QED
      BY <1>8, <2>1, <3>2 DEF Old
  <2>2. ASSUME l \in reset PROVE FALSE
    <3>1. PICK e \in known : e.line = l /\ (e \in sent \/ Withdrawn(e) \in sent)
      BY <1>5, <2>2 DEF NInv, Marks
    <3>2. Withdrawn(e) \in sent'
      <4>1. CASE e \in sent
        <5>1. new(e) = Withdrawn(e) /\ new(e) \in sent'
          BY <1>1, <2>2, <3>1, <4>1
        <5> QED
          BY <5>1
      <4>2. CASE Withdrawn(e) \in sent
        <5>1. new(Withdrawn(e)) = Withdrawn(e) /\ new(Withdrawn(e)) \in sent'
          BY <1>1, <1>2, <1>3, <3>1, <4>2
        <5> QED
          BY <5>1
      <4> QED
        BY <3>1, <4>1, <4>2
    <3>3. Withdrawn(e).superseded /\ Withdrawn(e).line = l
      BY <1>2, <1>3, <3>1
    <3> QED
      BY <1>8, <3>2, <3>3 DEF Old
  <2> QED
    BY <1>1, <2>1, <2>2 DEF Old
<1> HIDE DEF new, reset, known
<1>9. \A v \in Workers \ {w} : worker'[v] = worker[v] /\ Numbered(v) /\ Marks(v)
  BY <1>5 DEF NInv, Others
<1>10. ASSUME NEW v \in Workers \ {w} PROVE Numbered(v)' /\ Marks(v)'
  <2>1. Numbered(v)'
    BY <1>8, <1>9 DEF Numbered
  <2>2. worker[v].known \subseteq EvidenceType
    BY WorkerShape DEF NInv, WorkerType
  <2>3. Marks(v)'
    BY <1>7, <1>9, <2>2 DEF Marks
  <2> QED
    BY <2>1, <2>3
<1>11. Numbered(w)' /\ Marks(w)'
  BY <1>5 DEF Numbered, Marks
<1>12. OneClaim'
  BY <1>5 DEF NInv, OneClaim, Others
<1>13. Unique'
  <2>1. \A l \in Lines : line'[l] = line[l] \/ line'[l].no = 0
    BY <1>1 DEF NewLine
  <2> QED
    BY <2>1 DEF NInv, Unique
<1>14. \A l \in Lines : Shown(l)'
  BY <1>5, <1>8 DEF NInv, Shown
<1> QED
  BY <1>6, <1>10, <1>11, <1>12, <1>13, <1>14 DEF NInv

(* A claim takes the number of the row, or the next one. *)
LEMMA ClaimNumbers ==
  ASSUME NInv, TInv', NEW w \in Workers, NEW l \in Lines, Claim(w, l) PROVE NInv'
<1>1. worker[w] \in WorkerType /\ line[l].no \in Nat /\ TypeOK
  BY WorkerShape DEF NInv, TablesTyped, LineType, TInv
<1> DEFINE x == [worker[w] EXCEPT !.at = "claimed", !.on = l, !.todo = worker[w].todo \ {l},
                   !.no = IF line[l].no = 0 THEN NextNo ELSE line[l].no]
<1>2. worker'[w] = x
  BY <1>1, TakesLine DEF Becomes
<1>3. x.at = "claimed" /\ x.on = l /\ x.no # 0 /\ (line[l].no # 0 => x.no = line[l].no)
  <2>1. x.no = IF line[l].no = 0 THEN NextNo ELSE line[l].no
    BY <1>1 DEF WorkerType
  <2>2. NextNo # 0
    BY <1>1, NextNoTyped
  <2> QED
    BY <1>1, <2>1, <2>2 DEF WorkerType
<1> HIDE DEF x
<1>4. Others(w) /\ UNCHANGED <<line, sent, group>>
  BY LoopFrame DEF NInv, Claim, tables
<1>5. \A k \in Lines : Old(k)' = Old(k)
  BY <1>4 DEF Old
<1>6. Numbered(w)' /\ Marks(w)'
  BY <1>2, <1>3, <1>4 DEF Numbered, Marks
<1>7. ASSUME NEW v \in Workers \ {w} PROVE Numbered(v)' /\ Marks(v)'
  <2>1. worker'[v] = worker[v] /\ Numbered(v) /\ Marks(v)
    BY <1>4 DEF NInv, Others
  <2> QED
    BY <1>4, <1>5, <2>1 DEF Numbered, Marks
<1>8. OneClaim'
  <2>1. \A v \in Workers : worker[v].at = "claimed" => worker[v].on # l
    BY DEF Claim
  <2> QED
    BY <1>2, <1>3, <1>4, <2>1 DEF NInv, OneClaim, Others
<1>9. Unique' /\ \A k \in Lines : Shown(k)'
  BY <1>4, <1>5 DEF NInv, Unique, Shown
<1> QED
  BY <1>4, <1>6, <1>7, <1>8, <1>9 DEF NInv

(* The commit refuses a number that another row has. *)
LEMMA CommitNumbers ==
  ASSUME NInv, TInv', NEW w \in Workers, CommitClaim(w) PROVE NInv'
<1>1. /\ worker \in [Workers -> WorkerType] /\ worker[w] \in WorkerType /\ TablesTyped
      /\ (worker[w].at \in HandSteps => worker[w].on \in Lines)
  BY WorkerShape DEF NInv
<1>2. PICK l \in Lines : l = worker[w].on
  BY <1>1 DEF CommitClaim, HandSteps
<1>3. Others(w) /\ UNCHANGED <<sent, group>>
  BY LoopFrame DEF NInv, CommitClaim
<1>4. \A k \in Lines : Old(k)' = Old(k)
  BY <1>3 DEF Old
<1>5. CASE worker' = [worker EXCEPT ![w] = Idle] /\ line' = line
  <2>1. worker'[w].at = "idle"
    BY <1>1, <1>5 DEF Idle
  <2> QED
    BY <1>3, <1>4, <1>5, <2>1, NumbersNothing DEF NInv
<1>6. ASSUME \A k \in Lines \ {l} : line[k].no # worker[w].no,
             line' = [line EXCEPT ![l] = [state |-> "rendering", no |-> worker[w].no, msg |-> FALSE]],
             worker' = [worker EXCEPT ![w].at = "render"]
      PROVE  NInv'
  <2>1. worker'[w].at = "render" /\ worker'[w].on = l /\ worker'[w].no = worker[w].no
    BY <1>1, <1>2, <1>6 DEF WorkerType
  <2>2. line'[l].no = worker[w].no /\ \A k \in Lines \ {l} : line'[k] = line[k]
    BY <1>1, <1>6 DEF TablesTyped
  <2>3. /\ worker[w].at = "claimed" /\ worker[w].no # 0
        /\ Old(l) = {} /\ line[l].no # 0 => worker[w].no = line[l].no
    BY <1>2 DEF CommitClaim, NInv, Numbered
  <2>4. Numbered(w)' /\ Marks(w)'
    BY <2>1, <2>2, <2>3 DEF Numbered, Marks
  <2>5. ASSUME NEW v \in Workers \ {w} PROVE Numbered(v)' /\ Marks(v)'
    <3>1. worker'[v] = worker[v] /\ Numbered(v) /\ Marks(v)
      BY <1>3 DEF NInv, Others
    <3>2. worker[v].at = "claimed" => worker[v].on # l
      BY <1>2, <2>3 DEF NInv, OneClaim
    <3>3. worker[v].at \in {"render", "send"} /\ worker[v].on = l /\ Old(l) = {}
            => worker[v].no = line'[l].no
      BY <2>2, <2>3, <3>1 DEF Numbered
    <3>4. Marks(v)'
      BY <1>3, <3>1 DEF Marks
    <3>5. Numbered(v)'
      BY <1>4, <2>2, <3>1, <3>2, <3>3 DEF Numbered
    <3> QED
      BY <3>4, <3>5
  <2>6. OneClaim'
    BY <1>3, <2>1 DEF NInv, OneClaim, Others
  <2>7. Unique'
    BY <1>6, <2>2 DEF NInv, Unique
  <2>8. ASSUME NEW k \in Lines PROVE Shown(k)'
    <3>1. CASE k = l
      BY <1>3, <1>4, <2>2, <2>3, <3>1 DEF NInv, Shown
    <3>2. CASE k # l
      BY <1>3, <1>4, <2>2, <3>2 DEF NInv, Shown
    <3> QED
      BY <3>1, <3>2
  <2> QED
    BY <1>3, <2>4, <2>5, <2>6, <2>7, <2>8 DEF NInv
<1> QED
  BY <1>2, <1>5, <1>6 DEF CommitClaim

(* A picture shows the number of its row. *)
LEMMA SendNumbers ==
  ASSUME NInv, TInv', NEW w \in Workers, SendImage(w) PROVE NInv'
<1>1. /\ worker \in [Workers -> WorkerType] /\ worker[w] \in WorkerType /\ TablesTyped
      /\ (worker[w].at \in HandSteps => worker[w].on \in Lines)
  BY WorkerShape DEF NInv
<1>2. PICK l \in Lines : l = worker[w].on
  BY <1>1 DEF SendImage, HandSteps
<1>3. /\ Others(w) /\ UNCHANGED <<line, sent>> /\ worker[w].at = "send"
      /\ worker'[w].at \in {"answered", "unanswered"}
  <2>1. worker'[w].at \in {"answered", "unanswered"}
    BY <1>1 DEF SendImage, WorkerType
  <2> QED
    BY <2>1, LoopFrame DEF NInv, SendImage, tables
<1>4. \A k \in Lines : Old(k)' = Old(k)
  BY <1>3 DEF Old
<1>5. /\ group'[l].nos \subseteq group[l].nos \cup {worker[w].no}
      /\ \A k \in Lines \ {l} : group'[k].nos = group[k].nos
  <2>1. CASE group' = group
    BY <2>1
  <2>2. CASE group' = [group EXCEPT ![l].sheets = @ + 1, ![l].nos = @ \cup {worker[w].no}]
    BY <1>1, <2>2 DEF TablesTyped, GroupType
  <2> QED
    BY <1>2, <2>1, <2>2 DEF SendImage
<1>6. \A k \in Lines : Shown(k)'
  <2>1. Old(l) = {} => worker[w].no = line[l].no /\ worker[w].no # 0
    BY <1>2, <1>3 DEF NInv, Numbered
  <2>2. Shown(l)'
    BY <1>3, <1>4, <1>5, <2>1 DEF NInv, Shown
  <2>3. ASSUME NEW k \in Lines \ {l} PROVE Shown(k)'
    BY <1>3, <1>4, <1>5 DEF NInv, Shown
  <2> QED
    BY <2>2, <2>3
<1>7. Numbered(w)' /\ Marks(w)'
  BY <1>3 DEF Numbered, Marks
<1>8. ASSUME NEW v \in Workers \ {w} PROVE Numbered(v)' /\ Marks(v)'
  <2>1. worker'[v] = worker[v] /\ Numbered(v) /\ Marks(v)
    BY <1>3 DEF NInv, Others
  <2> QED
    BY <1>3, <1>4, <2>1 DEF Numbered, Marks
<1>9. OneClaim' /\ Unique'
  BY <1>3 DEF NInv, OneClaim, Others, Unique
<1> QED
  BY <1>3, <1>6, <1>7, <1>8, <1>9 DEF NInv

(* The other steps of the loop number nothing. *)
LEMMA LoopNumbers ==
  ASSUME NInv, TInv', NEW w \in Workers, LineStep(w) PROVE NInv'
<1>1. /\ worker \in [Workers -> WorkerType] /\ worker[w] \in WorkerType
      /\ line \in [Lines -> LineType] /\ (worker[w].at \in HandSteps => worker[w].on \in Lines)
  BY WorkerShape DEF NInv, TablesTyped
<1>2. ASSUME UNCHANGED <<line, sent>>, \A l \in Lines : group'[l].nos = group[l].nos, Others(w),
             worker'[w].at \notin {"claimed", "render", "send", "supersede"}
      PROVE  NInv'
  <2>1. \A l \in Lines : Old(l)' = Old(l)
    BY <1>2 DEF Old
  <2> QED
    BY <1>2, <2>1, NumbersNothing DEF NInv
<1>3. CASE SendReply(w) \/ \E l \in Lines : ClaimReply(w, l)
  BY <1>2, <1>3, ReplySteps DEF NInv
<1>4. CASE Ask(w) \/ SendCard(w)
  BY <1>2, <1>4, AskSteps DEF NInv
<1>5. CASE ReadReceipts(w) \/ ReadLines(w) \/ Finish(w) \/ \E l \in Lines : Skip(w, l)
  <2>1. UNCHANGED <<line, sent, group>>
    BY <1>5 DEF ReadReceipts, ReadLines, Finish, Skip, tables
  <2>2. worker'[w].at \in {"receipts", "lines", "idle"}
    <3>1. CASE ReadReceipts(w)
      BY <1>1, <3>1 DEF ReadReceipts, WorkerType
    <3>2. CASE ReadLines(w)
      BY <1>1, <3>2 DEF ReadLines, WorkerType
    <3>3. CASE Finish(w)
      BY <1>1, <3>3 DEF Finish, Idle
    <3>4. CASE \E l \in Lines : Skip(w, l)
      BY <1>1, <3>4 DEF Skip, Visits, Pass, WorkerType
    <3> QED
      BY <1>5, <3>1, <3>2, <3>3, <3>4
  <2>3. Others(w)
    BY <1>5, LoopFrame DEF NInv
  <2> QED
    BY <1>2, <2>1, <2>2, <2>3
<1>6. CASE MarkSending(w) \/ RenderFails(w) \/ SettleUnknown(w)
  <2>1. sent' = sent /\ group' = group /\ Others(w)
    BY <1>6, LoopFrame DEF NInv, MarkSending, RenderFails, SettleUnknown
  <2>2. \A l \in Lines : line'[l].no = line[l].no
    BY <1>1, <1>6 DEF MarkSending, RenderFails, SettleUnknown, LineType
  <2>3. /\ worker'[w].at \notin {"claimed", "render", "supersede"}
        /\ worker'[w].at = "send" => /\ worker[w].at = "render" /\ worker'[w].on = worker[w].on
                                     /\ worker'[w].no = worker[w].no
    BY <1>1, <1>6 DEF MarkSending, RenderFails, SettleUnknown, WorkerType
  <2>4. \A l \in Lines : Old(l)' = Old(l)
    BY <2>1 DEF Old
  <2> QED
    BY <2>1, <2>2, <2>3, <2>4, NumbersNothing DEF NInv
<1>7. CASE Record(w)
  <2> DEFINE e == [line |-> worker[w].on, no |-> line[worker[w].on].no,
                   activated |-> order[worker[w].on].hold = "activated", superseded |-> FALSE]
  <2>1. sent' = sent \cup {e} /\ ~e.superseded
    BY <1>7 DEF Record
  <2> HIDE DEF e
  <2>2. IsFiniteSet(sent') /\ sent \subseteq sent' /\ \A l \in Lines : Old(l)' = Old(l)
    BY <2>1, FS_AddElement DEF NInv, Old
  <2>3. \A l \in Lines : line'[l].no = line[l].no
    BY <1>1, <1>7 DEF Record, LineType
  <2>4. group' = group /\ Others(w) /\ worker'[w].at = "explain"
    <3>1. worker'[w].at = "explain"
      BY <1>1, <1>7 DEF Record, WorkerType
    <3> QED
      BY <1>7, <3>1, LoopFrame DEF NInv, Record
  <2> QED
    BY <2>2, <2>3, <2>4, NumbersNothing
<1> QED
  BY <1>3, <1>4, <1>5, <1>6, <1>7, ClaimNumbers, CommitNumbers, SendNumbers DEF LineStep

(* The next number is read before the claim that takes it is committed,    *)
(* and several workers may read the same one; still no two lines are shown *)
(* to the group under one number, as long as neither was started over.     *)
THEOREM DistinctNumbers == Spec => []NumbersAreDistinct
<1>1. Init => NInv
  <2> SUFFICES ASSUME Init PROVE NInv
    OBVIOUS
  <2>1. TInv /\ \A w \in Workers : worker[w].at = "idle"
    BY TypesInit DEF Init, Idle
  <2>2. IsFiniteSet(sent)
    BY FS_EmptySet DEF Init
  <2>3. Unique /\ \A l \in Lines : Shown(l)
    BY DEF Init, Unique, Shown, NewLine
  <2> QED
    BY <2>1, <2>2, <2>3 DEF NInv, OneClaim, Numbered, Marks
<1>2. NInv /\ [Next]_vars => NInv'
  <2> SUFFICES ASSUME NInv, [Next]_vars PROVE NInv'
    OBVIOUS
  <2>1. TInv'
    BY TypesStep DEF NInv
  <2>2. ASSUME UNCHANGED <<line, sent, group>>,
               worker' = worker \/ \A w \in Workers : worker'[w].at = "idle"
        PROVE  NInv'
    <3>1. \A l \in Lines : Old(l)' = Old(l)
      BY <2>2 DEF Old
    <3>2. \A w \in Workers : Numbered(w)' /\ Marks(w)'
      <4>1. CASE worker' = worker
        BY <2>2, <3>1, <4>1 DEF NInv, Numbered, Marks
      <4>2. CASE \A w \in Workers : worker'[w].at = "idle"
        BY <4>2 DEF Numbered, Marks
      <4> QED
        BY <2>2, <4>1, <4>2
    <3>3. OneClaim' /\ Unique' /\ \A l \in Lines : Shown(l)'
      BY <2>2, <3>1 DEF NInv, OneClaim, Unique, Shown
    <3> QED
      BY <2>1, <2>2, <3>2, <3>3 DEF NInv
  <2>3. CASE Crash
    <3>1. (\A w \in Workers : worker'[w].at = "idle") /\ UNCHANGED <<line, sent, group>>
      BY <2>3 DEF Crash, Idle, tables
    <3> QED
      BY <2>2, <3>1
  <2>4. CASE UNCHANGED vars \/ \E l \in Lines : ChangeOrder(l)
    <3>1. UNCHANGED <<worker, line, sent, group>>
      BY <2>4 DEF vars, tables, ChangeOrder
    <3> QED
      BY <2>2, <3>1
  <2>5. ASSUME NEW w \in Workers,
               (\E scope \in SUBSET Lines \ {{}} : Resume(w, scope)) \/ \E l \in Lines : Reply(w, l)
        PROVE  NInv'
    <3>1. UNCHANGED <<line, sent, group>>
      BY <2>5 DEF Resume, Reply, tables
    <3>2. Others(w) /\ worker'[w].at \in {"idle", "pending"}
      <4>1. worker \in [Workers -> WorkerType] /\ worker[w] \in WorkerType
        BY WorkerShape DEF NInv
      <4> QED
        BY <2>5, <4>1 DEF Resume, Reply, Begin, Others, Idle
    <3>3. \A l \in Lines : Old(l)' = Old(l)
      BY <3>1 DEF Old
    <3> QED
      BY <2>1, <3>1, <3>2, <3>3, NumbersNothing DEF NInv
  <2>6. ASSUME NEW w \in Workers, VoidStep(w) \/ \E l \in Lines : ArchiveVoid(w, l) PROVE NInv'
    <3>1. /\ Others(w) /\ UNCHANGED <<line, sent>>
          /\ worker'[w].at \in {"void", "void_card", "void_answered"}
          /\ \A l \in Lines : group'[l].nos = group[l].nos
      BY <2>6, VoidFrame DEF NInv
    <3>2. \A l \in Lines : Old(l)' = Old(l)
      BY <3>1 DEF Old
    <3> QED
      BY <2>1, <3>1, <3>2, NumbersNothing DEF NInv
  <2> QED
    BY <2>1, <2>3, <2>4, <2>5, <2>6, StartMarks, SupersedeMarks, LoopNumbers DEF Next
<1>3. NInv => NumbersAreDistinct
  <2> SUFFICES ASSUME NInv, NEW k \in Lines, NEW l \in Lines, k # l, Generation(k) = 0,
                      Generation(l) = 0, NEW n, n \in group[k].nos, n \in group[l].nos
               PROVE  FALSE
    BY DEF NumbersAreDistinct
  <2>1. ASSUME NEW j \in Lines, Generation(j) = 0 PROVE Old(j) = {}
    <3>1. IsFiniteSet(Old(j)) /\ Generation(j) = Cardinality(Old(j))
      BY FS_Subset DEF NInv, Old, Generation
    <3> QED
      BY <2>1, <3>1, FS_EmptySet
  <2>2. n = line[k].no /\ n = line[l].no /\ n # 0
    BY <2>1 DEF NInv, Shown
  <2> QED
    BY <2>2 DEF NInv, Unique
<1> QED
  BY <1>1, <1>2, <1>3, PTL DEF Spec

-----------------------------------------------------------------------------
(* Explanations *)

At(w, l, step) == worker[w].at = step /\ worker[w].on = l

(* A question is asked, and its answer explained, by one worker, and until *)
(* that one has called the chat nothing was explained.                     *)
Question(l) ==
    /\ \A v, w \in Workers, step \in {"card", "reply"} :
         At(v, l, step) /\ At(w, l, step) => v = w
    /\ \A w \in Workers : At(w, l, "card") => question[l] = "asking"
    /\ \A w \in Workers : At(w, l, "reply") => question[l] = "claimed" /\ group[l].replies = 0
    /\ question[l] \notin {"claimed", "explained"} => group[l].replies = 0
    /\ group[l].replies <= 1

EInv == TInv /\ \A l \in Lines : Question(l)

(* A step that asks and explains nothing may confirm or hold a question    *)
(* that nobody is at.                                                      *)
LEMMA AsksNothing ==
  ASSUME EInv, TInv', NEW w \in Workers, Others(w), worker'[w].at \notin {"card", "reply"},
         \A l \in Lines : group'[l].replies = group[l].replies,
         \A l \in Lines : \/ question'[l] = question[l]
                          \/ /\ question[l] \notin {"asking", "claimed", "explained"}
                             /\ question'[l] \notin {"claimed", "explained"}
  PROVE  EInv'
<1> SUFFICES ASSUME NEW l \in Lines PROVE Question(l)'
  BY DEF EInv
<1>1. Question(l)
  BY DEF EInv
<1>2. \A v \in Workers, step \in {"card", "reply"} : At(v, l, step)' => At(v, l, step)
  BY DEF At, Others
<1>3. group'[l].replies = group[l].replies
  OBVIOUS
<1>4. CASE question'[l] = question[l]
  BY <1>1, <1>2, <1>3, <1>4 DEF Question
<1>5. CASE question[l] \notin {"asking", "claimed", "explained"}
           /\ question'[l] \notin {"claimed", "explained"}
  <2>1. \A v \in Workers : ~At(v, l, "card") /\ ~At(v, l, "reply")
    BY <1>1, <1>5 DEF Question
  <2> QED
    BY <1>1, <1>2, <1>3, <1>5, <2>1 DEF Question
<1> QED
  BY <1>4, <1>5

(* A step that takes up or lets go of the question of line l. *)
LEMMA OtherQuestions ==
  ASSUME EInv, NEW w \in Workers, NEW l \in Lines, Others(w),
         \A k \in Lines \ {l} : question'[k] = question[k] /\ group'[k].replies = group[k].replies,
         \A k \in Lines \ {l}, step \in {"card", "reply"} : ~At(w, k, step)',
         NEW k \in Lines \ {l}
  PROVE  Question(k)'
<1>1. Question(k)
  BY DEF EInv
<1>2. \A v \in Workers, step \in {"card", "reply"} : At(v, k, step)' => At(v, k, step)
  BY DEF At, Others
<1> QED
  BY <1>1, <1>2 DEF Question

LEMMA AskOnce ==
  ASSUME EInv, TInv', NEW w \in Workers, Ask(w) \/ SendCard(w) PROVE EInv'
<1>1. /\ worker \in [Workers -> WorkerType] /\ worker[w] \in WorkerType /\ TablesTyped
      /\ (worker[w].at \in HandSteps => worker[w].on \in Lines)
  BY WorkerShape DEF EInv
<1>2. PICK l \in Lines : l = worker[w].on
  BY <1>1 DEF Ask, SendCard, HandSteps
<1>3. Others(w) /\ group' = group
  BY AskSteps DEF EInv
<1>4. Question(l)
  BY DEF EInv
<1>5. CASE Ask(w) /\ question' # question
  <2>1. /\ worker' = [worker EXCEPT ![w].at = "card"] /\ question[l] = "none"
        /\ question' = [question EXCEPT ![l] = "asking"]
    BY <1>2, <1>5 DEF Ask
  <2>2. worker'[w].at = "card" /\ worker'[w].on = l
    BY <1>1, <1>2, <2>1 DEF WorkerType
  <2>3. question'[l] = "asking" /\ \A k \in Lines \ {l} : question'[k] = question[k]
    BY <1>1, <2>1 DEF TablesTyped
  <2>4. \A v \in Workers : ~At(v, l, "card") /\ ~At(v, l, "reply")
    BY <1>4, <2>1 DEF Question
  <2>5. Question(l)'
    <3>1. \A v \in Workers \ {w}, step \in {"card", "reply"} : ~At(v, l, step)'
      BY <1>3, <2>4 DEF At, Others
    <3>2. ~At(w, l, "reply")'
      BY <2>2 DEF At
    <3>3. group'[l].replies = 0
      BY <1>3, <1>4, <2>1 DEF Question
    <3> QED
      BY <2>3, <3>1, <3>2, <3>3 DEF Question
  <2>6. \A k \in Lines \ {l}, step \in {"card", "reply"} : ~At(w, k, step)'
    BY <2>2 DEF At
  <2> QED
    BY <1>3, <2>3, <2>5, <2>6, OtherQuestions DEF EInv
<1>6. CASE Ask(w) /\ question' = question
  <2>1. worker'[w].at = "lines" \/ question'[l] = "asking"
    BY <1>1, <1>2, <1>6 DEF Ask, TablesTyped, WorkerType
  <2>2. CASE worker'[w].at = "lines"
    BY <1>3, <1>6, <2>2, AsksNothing
  <2>3. CASE worker'[w].at # "lines"
    <3>1. question[l] = "none"
      BY <1>1, <1>2, <1>6, <2>3 DEF Ask, WorkerType
    <3> QED
      BY <1>6, <2>1, <2>3, <3>1
  <2> QED
    BY <2>2, <2>3
<1>7. CASE SendCard(w)
  <2>1. question[l] = "asking" /\ At(w, l, "card")
    BY <1>2, <1>4, <1>7 DEF SendCard, Question, At
  <2>2. worker'[w].at = "lines"
    BY <1>1, <1>7 DEF SendCard, WorkerType
  <2>3. /\ question'[l] \in {"awaiting_reply", "ask_uncertain"}
        /\ \A k \in Lines \ {l} : question'[k] = question[k]
    BY <1>1, <1>2, <1>7 DEF SendCard, TablesTyped
  <2>4. Question(l)'
    <3>1. \A v \in Workers, step \in {"card", "reply"} : ~At(v, l, step)'
      <4>1. \A v \in Workers \ {w} : ~At(v, l, "card") /\ ~At(v, l, "reply")
        BY <1>4, <2>1 DEF Question
      <4> QED
        BY <1>3, <2>2, <4>1 DEF At, Others
    <3>2. group'[l].replies = 0
      BY <1>3, <1>4, <2>1 DEF Question
    <3> QED
      BY <3>1, <3>2 DEF Question
  <2>5. \A k \in Lines \ {l}, step \in {"card", "reply"} : ~At(w, k, step)'
    BY <2>2 DEF At
  <2> QED
    BY <1>3, <2>3, <2>4, <2>5, OtherQuestions DEF EInv
<1> QED
  BY <1>5, <1>6, <1>7

LEMMA ReplyOnce ==
  ASSUME EInv, TInv', NEW w \in Workers, SendReply(w) \/ \E l \in Lines : ClaimReply(w, l)
  PROVE  EInv'
<1>1. /\ worker \in [Workers -> WorkerType] /\ worker[w] \in WorkerType /\ TablesTyped
      /\ (worker[w].at \in HandSteps => worker[w].on \in Lines)
  BY WorkerShape DEF EInv
<1>2. Others(w)
  BY ReplySteps DEF EInv
<1>3. ASSUME NEW l \in Lines, ClaimReply(w, l) PROVE EInv'
  <2>1. CASE Return(w, l) /\ question' = question
    <3>1. worker'[w].at \in {"receipts", "lines"} /\ group' = group
      BY <1>1, <1>3, <2>1 DEF ClaimReply, Return, WorkerType
    <3> QED
      BY <1>2, <2>1, <3>1, AsksNothing
  <2>2. CASE /\ Due(l) /\ question' = [question EXCEPT ![l] = "claimed"]
             /\ worker' = [worker EXCEPT ![w].at = "reply", ![w].on = l]
    <3>1. worker'[w].at = "reply" /\ worker'[w].on = l /\ group' = group
      BY <1>1, <1>3, <2>2 DEF ClaimReply, WorkerType
    <3>2. question[l] = "confirmed" /\ question'[l] = "claimed"
          /\ \A k \in Lines \ {l} : question'[k] = question[k]
      BY <1>1, <2>2 DEF Due, TablesTyped
    <3>3. Question(l)'
      <4>1. Question(l)
        BY DEF EInv
      <4>2. \A v \in Workers : ~At(v, l, "card") /\ ~At(v, l, "reply")
        BY <3>2, <4>1 DEF Question
      <4>3. \A v \in Workers \ {w}, step \in {"card", "reply"} : ~At(v, l, step)'
        BY <1>2, <4>2 DEF At, Others
      <4>4. ~At(w, l, "card")'
        BY <3>1 DEF At
      <4>5. group'[l].replies = 0
        BY <3>1, <3>2, <4>1 DEF Question
      <4> QED
        BY <3>2, <4>3, <4>4, <4>5 DEF Question
    <3>4. \A k \in Lines \ {l}, step \in {"card", "reply"} : ~At(w, k, step)'
      BY <3>1 DEF At
    <3> QED
      BY <1>2, <3>1, <3>2, <3>3, <3>4, OtherQuestions DEF EInv
  <2> QED
    BY <1>3, <2>1, <2>2 DEF ClaimReply
<1>4. CASE SendReply(w)
  <2>1. PICK l \in Lines : l = worker[w].on
    BY <1>1, <1>4 DEF SendReply, HandSteps
  <2>2. Question(l) /\ At(w, l, "reply") /\ question[l] = "claimed" /\ group[l].replies = 0
    BY <1>4, <2>1 DEF EInv, SendReply, Question, At
  <2>3. worker'[w].at \in {"receipts", "lines"}
    BY <1>1, <1>4 DEF SendReply, Return, WorkerType
  <2>4. /\ group'[l].replies \in {0, 1}
        /\ \A k \in Lines \ {l} : group'[k] = group[k]
    <3>1. CASE group' = group
      BY <2>2, <3>1
    <3>2. CASE group' = [group EXCEPT ![l].replies = @ + 1]
      BY <1>1, <2>2, <3>2 DEF TablesTyped, GroupType
    <3> QED
      BY <1>4, <2>1, <3>1, <3>2 DEF SendReply
  <2>5. /\ question'[l] \in {"claimed", "explained"}
        /\ \A k \in Lines \ {l} : question'[k] = question[k]
    BY <1>1, <1>4, <2>1, <2>2 DEF SendReply, TablesTyped
  <2>6. Question(l)'
    <3>1. \A v \in Workers, step \in {"card", "reply"} : ~At(v, l, step)'
      <4>1. \A v \in Workers \ {w} : ~At(v, l, "card") /\ ~At(v, l, "reply")
        BY <2>2 DEF Question
      <4> QED
        BY <1>2, <2>3, <4>1 DEF At, Others
    <3> QED
      BY <2>4, <2>5, <3>1 DEF Question
  <2>7. \A k \in Lines \ {l}, step \in {"card", "reply"} : ~At(w, k, step)'
    BY <2>3 DEF At
  <2> QED
    BY <1>2, <2>4, <2>5, <2>6, <2>7, OtherQuestions DEF EInv
<1> QED
  BY <1>3, <1>4

(* Of a confirmed quantity the group is told once, whatever calls overlap, *)
(* are ended or lose their answers, and however often the picture is sent  *)
(* again.                                                                  *)
THEOREM OneReply == Spec => []OneExplanation
<1>1. Init => EInv
  <2> SUFFICES ASSUME Init PROVE EInv
    OBVIOUS
  <2>1. TInv /\ \A w \in Workers : worker[w].at = "idle"
    BY TypesInit DEF Init, Idle
  <2> QED
    BY <2>1 DEF Init, EInv, Question, At
<1>2. EInv /\ [Next]_vars => EInv'
  <2> SUFFICES ASSUME EInv, [Next]_vars PROVE EInv'
    OBVIOUS
  <2>1. TInv'
    BY TypesStep DEF EInv
  <2>2. CASE Crash
    <3>1. (\A w \in Workers : worker'[w].at = "idle") /\ question' = question /\ group' = group
      BY <2>2 DEF Crash, Idle, tables
    <3> QED
      BY <2>1, <3>1 DEF EInv, Question, At
  <2>3. CASE UNCHANGED vars \/ \E l \in Lines : ChangeOrder(l)
    <3>1. worker' = worker /\ question' = question /\ group' = group
      BY <2>3 DEF vars, tables, ChangeOrder
    <3> QED
      BY <2>1, <3>1 DEF EInv, Question, At
  <2>4. ASSUME NEW w \in Workers,
               \/ Start(w) \/ Supersede(w)
               \/ \E scope \in SUBSET Lines \ {{}} : Resume(w, scope)
               \/ \E l \in Lines : Reply(w, l)
        PROVE  EInv'
    <3>1. Others(w) /\ group' = group /\ worker'[w].at \notin {"card", "reply"}
      BY <2>4, BeginSteps DEF EInv
    <3>2. \A l \in Lines : \/ question'[l] = question[l]
                           \/ /\ question[l] \notin {"asking", "claimed", "explained"}
                              /\ question'[l] \notin {"claimed", "explained"}
      <4>1. CASE question' = question
        BY <4>1
      <4>2. CASE \E k \in Lines : Reply(w, k)
        BY <4>2 DEF Reply, EInv, TInv, TypeOK
      <4> QED
        BY <2>4, <4>1, <4>2 DEF Start, Supersede, Resume, tables
    <3> QED
      BY <2>1, <3>1, <3>2, AsksNothing
  <2>5. ASSUME NEW w \in Workers, VoidStep(w) \/ \E l \in Lines : ArchiveVoid(w, l) PROVE EInv'
    <3>1. /\ Others(w) /\ question' = question /\ worker'[w].at \notin {"card", "reply"}
          /\ \A l \in Lines : group'[l].replies = group[l].replies
      BY <2>5, VoidFrame DEF EInv
    <3> QED
      BY <2>1, <3>1, AsksNothing
  <2>6. ASSUME NEW w \in Workers, LineStep(w) PROVE EInv'
    <3>1. CASE Ask(w) \/ SendCard(w)
      BY <2>1, <3>1, AskOnce
    <3>2. CASE SendReply(w) \/ \E l \in Lines : ClaimReply(w, l)
      BY <2>1, <3>2, ReplyOnce
    <3>3. CASE ~(\/ SendReply(w) \/ Ask(w) \/ SendCard(w) \/ \E l \in Lines : ClaimReply(w, l))
      <4>1. /\ Others(w) /\ question' = question /\ worker'[w].at \notin {"card", "reply"}
            /\ \A l \in Lines : group'[l].replies = group[l].replies
        BY <2>6, <3>3, LoopFrame DEF EInv, LineStep, LoopSteps
      <4> QED
        BY <2>1, <4>1, AsksNothing
    <3> QED
      BY <3>1, <3>2, <3>3
  <2> QED
    BY <2>2, <2>3, <2>4, <2>5, <2>6 DEF Next
<1>3. EInv => OneExplanation
  BY DEF EInv, Question, OneExplanation
<1> QED
  BY <1>1, <1>2, <1>3, PTL DEF Spec

-----------------------------------------------------------------------------
(* Lines that only a person can free *)

(* A state that no later call takes up: the line is on its way. *)
OnItsWay(l) == line[l].state \in {"rendering", "sending_image"}

Sends(w, l) == worker[w].on = l /\ worker[w].at \in {"render", "send", "answered", "unanswered"}

Asks(w, l) == worker[w].on = l /\ worker[w].at = "card"

(* Without a restart, such a line is in the hands of a worker that will    *)
(* settle it, and so is a question that is being asked.                    *)
NothingIsLeftBehind ==
    crashes = 0 =>
      \A l \in Lines : /\ OnItsWay(l) => \E w \in Workers : Sends(w, l)
                       /\ question[l] = "asking" => \E w \in Workers : Asks(w, l)

(* Whoever lets go of a line settles it, and whoever opens it holds it.    *)
LEMMA LetGoSettled ==
  ASSUME NothingIsLeftBehind, NEW w \in Workers, crashes' = crashes,
         \A v \in Workers \ {w} : worker'[v] = worker[v],
         \A l \in Lines : OnItsWay(l)' => Sends(w, l)' \/ (OnItsWay(l) /\ ~Sends(w, l)),
         \A l \in Lines : question'[l] = "asking" =>
                           Asks(w, l)' \/ (question[l] = "asking" /\ ~Asks(w, l))
  PROVE  NothingIsLeftBehind'
<1>1. ASSUME NEW l \in Lines, NEW v \in Workers \ {w}
      PROVE  (Sends(v, l) => Sends(v, l)') /\ (Asks(v, l) => Asks(v, l)')
  BY DEF Sends, Asks
<1>2. ASSUME NEW l \in Lines, crashes = 0, OnItsWay(l)' PROVE \E v \in Workers : Sends(v, l)'
  <2>1. CASE Sends(w, l)'
    BY <2>1
  <2>2. CASE OnItsWay(l) /\ ~Sends(w, l)
    <3>1. PICK v \in Workers : Sends(v, l)
      BY <1>2, <2>2 DEF NothingIsLeftBehind
    <3> QED
      BY <1>1, <2>2, <3>1
  <2> QED
    BY <1>2, <2>1, <2>2
<1>3. ASSUME NEW l \in Lines, crashes = 0, question'[l] = "asking" PROVE \E v \in Workers : Asks(v, l)'
  <2>1. CASE Asks(w, l)'
    BY <2>1
  <2>2. CASE question[l] = "asking" /\ ~Asks(w, l)
    <3>1. PICK v \in Workers : Asks(v, l)
      BY <1>3, <2>2 DEF NothingIsLeftBehind
    <3> QED
      BY <1>1, <2>2, <3>1
  <2> QED
    BY <1>3, <2>1, <2>2
<1> QED
  BY <1>2, <1>3 DEF NothingIsLeftBehind

(* A step of a worker that neither sends nor asks, and opens nothing.      *)
LEMMA NobodysStep ==
  ASSUME NothingIsLeftBehind, NEW w \in Workers, crashes' = crashes,
         \A v \in Workers \ {w} : worker'[v] = worker[v],
         worker[w].at \notin {"render", "send", "answered", "unanswered", "card"},
         \A l \in Lines : OnItsWay(l)' => OnItsWay(l),
         \A l \in Lines : question'[l] = "asking" => question[l] = "asking"
  PROVE  NothingIsLeftBehind'
<1>1. \A l \in Lines : ~Sends(w, l) /\ ~Asks(w, l)
  BY DEF Sends, Asks
<1> QED
  BY <1>1, LetGoSettled

(* Calls begin, supersede and withdraw: no line is on its way for them.    *)
LEMMA AroundStep ==
  ASSUME TInv, NothingIsLeftBehind, NEW w \in Workers,
         \/ Start(w) \/ \E scope \in SUBSET Lines \ {{}} : Resume(w, scope)
         \/ Supersede(w) \/ VoidStep(w)
         \/ \E l \in Lines : ArchiveVoid(w, l) \/ Reply(w, l)
  PROVE  NothingIsLeftBehind'
<1> DEFINE Rest == /\ crashes' = crashes
                   /\ worker[w].at \notin {"render", "send", "answered", "unanswered", "card"}
                   /\ \A v \in Workers \ {w} : worker'[v] = worker[v]
<1>1. CASE Start(w) \/ \E scope \in SUBSET Lines \ {{}} : Resume(w, scope)
  <2>1. Rest /\ line' = line /\ question' = question
    BY <1>1 DEF Start, Resume, Begin, TInv, TypeOK, tables
  <2> QED
    BY <2>1, NobodysStep DEF OnItsWay
<1>2. CASE Supersede(w)
  <2>1. Rest /\ question' = question
    BY <1>2 DEF Supersede, TInv, TypeOK
  <2>2. ASSUME NEW l \in Lines, OnItsWay(l)' PROVE OnItsWay(l)
    <3>1. line'[l] = NewLine \/ line'[l] = line[l]
      BY <1>2 DEF Supersede
    <3> QED
      BY <2>2, <3>1 DEF OnItsWay, NewLine
  <2>3. (\A l \in Lines : OnItsWay(l)' => OnItsWay(l)) /\ question' = question
    BY <2>1, <2>2
  <2> QED
    BY <2>1, <2>3, NobodysStep DEF OnItsWay
<1>3. CASE VoidStep(w) \/ \E l \in Lines : ArchiveVoid(w, l)
  <2>1. Rest
    <3>1. /\ crashes' = crashes
          /\ worker[w].at \in {"refunds", "void", "void_card", "void_answered"}
          /\ \E x : worker' = [worker EXCEPT ![w] = x]
      BY <1>3 DEF VoidStep, ReadRefunds, SendVoid, RecordVoid, VoidFails, ArchiveVoid
    <3> QED
      BY <3>1 DEF TInv, TypeOK
  <2>2. line' = line /\ question' = question
    BY <1>3 DEF VoidStep, ReadRefunds, SendVoid, RecordVoid, VoidFails, ArchiveVoid, tables
  <2> QED
    BY <2>1, <2>2, NobodysStep DEF OnItsWay
<1>4. CASE \E l \in Lines : Reply(w, l)
  <2>1. PICK l \in Lines : Reply(w, l)
    BY <1>4
  <2>2. Rest /\ line' = line
    BY <2>1 DEF Reply, Begin, TInv, TypeOK
  <2>3. \A k \in Lines : question'[k] = "asking" => question[k] = "asking"
    BY <2>1 DEF Reply, TInv, TypeOK
  <2> QED
    BY <2>2, <2>3, NobodysStep DEF OnItsWay
<1> QED
  BY <1>1, <1>2, <1>3, <1>4

(* The loop over the lines, one row after the other. *)
LEMMA LoopStep ==
  ASSUME TInv, NothingIsLeftBehind, NEW w \in Workers, LineStep(w)
  PROVE  NothingIsLeftBehind'
<1> DEFINE me == worker[w]
<1>1. /\ worker \in [Workers -> WorkerType] /\ me \in WorkerType
      /\ me.at \in HandSteps => me.on \in Lines
      /\ line \in [Lines -> LineType] /\ question \in [Lines -> QuestionStates]
  BY WorkerShape DEF TablesTyped
<1>2. crashes' = crashes
  BY DEF LineStep, ReadReceipts, ClaimReply, SendReply, ReadLines, CommitClaim, MarkSending,
     RenderFails, Ask, SendCard, SendImage, Record, SettleUnknown, Finish, Skip, Claim
<1>3. \A v \in Workers \ {w} : worker'[v] = worker[v]
  <2>1. CASE \/ ReadReceipts(w) \/ SendReply(w) \/ \E l \in Lines : ClaimReply(w, l)
    BY <1>1, <2>1, ReplySteps DEF ReadReceipts, Others
  <2>2. CASE \/ ReadLines(w) \/ CommitClaim(w) \/ MarkSending(w) \/ RenderFails(w) \/ Ask(w)
             \/ SendCard(w) \/ SendImage(w)
    BY <1>1, <2>2 DEF ReadLines, CommitClaim, MarkSending, RenderFails, Ask, SendCard, SendImage
  <2>3. CASE \/ Record(w) \/ SettleUnknown(w) \/ Finish(w)
             \/ \E l \in Lines : Skip(w, l) \/ Claim(w, l)
    BY <1>1, <2>3 DEF Record, SettleUnknown, Finish, Skip, Claim, Pass
  <2> QED
    BY <2>1, <2>2, <2>3 DEF LineStep
<1>4. CASE (\E l \in Lines : Skip(w, l) \/ Claim(w, l)) \/ Finish(w)
  <2>1. me.at = "lines" /\ line' = line /\ question' = question
    BY <1>4 DEF Skip, Claim, Visits, Finish, tables
  <2> QED
    BY <1>2, <1>3, <2>1, NobodysStep DEF OnItsWay
<1>5. CASE ReadReceipts(w) \/ ReadLines(w) \/ SendReply(w) \/ \E l \in Lines : ClaimReply(w, l)
  <2>1. me.at \in {"pending", "void", "receipts", "explain", "reply"} /\ line' = line
    BY <1>5 DEF ReadReceipts, ReadLines, SendReply, ClaimReply, tables
  <2>2. \A l \in Lines : question'[l] = "asking" => question[l] = "asking"
    <3>1. CASE ReadReceipts(w) \/ ReadLines(w)
      BY <3>1 DEF ReadReceipts, ReadLines, tables
    <3>2. CASE SendReply(w)
      BY <1>1, <3>2 DEF SendReply
    <3>3. CASE \E l \in Lines : ClaimReply(w, l)
      BY <1>1, <3>3 DEF ClaimReply
    <3> QED
      BY <1>5, <3>1, <3>2, <3>3
  <2> QED
    BY <1>2, <1>3, <2>1, <2>2, NobodysStep DEF OnItsWay
<1>6. ASSUME NEW step \in Steps, worker' = [worker EXCEPT ![w].at = step]
      PROVE  worker'[w].at = step /\ worker'[w].on = me.on
  BY <1>1, <1>6 DEF WorkerType
<1>7. ASSUME NEW k \in Lines, NEW r, line' = [line EXCEPT ![k] = r]
      PROVE  line'[k] = r /\ \A l \in Lines \ {k} : line'[l] = line[l]
  BY <1>1, <1>7
<1>8. CASE CommitClaim(w)
  <2>1. me.at = "claimed" /\ me.on \in Lines /\ question' = question
    BY <1>1, <1>8 DEF CommitClaim, HandSteps
  <2>2. CASE line' = line
    BY <1>2, <1>3, <2>1, <2>2, NobodysStep DEF OnItsWay
  <2>3. CASE line' # line
    <3>1. /\ worker' = [worker EXCEPT ![w].at = "render"]
          /\ line' = [line EXCEPT ![me.on] = [state |-> "rendering", no |-> me.no, msg |-> FALSE]]
      BY <1>8, <2>3 DEF CommitClaim
    <3>2. (\A l \in Lines : l = me.on => Sends(w, l)') /\ \A l \in Lines \ {me.on} : line'[l] = line[l]
      BY <1>6, <1>7, <2>1, <3>1 DEF Sends, Steps
    <3>3. \A l \in Lines : ~Sends(w, l) /\ ~Asks(w, l)
      BY <2>1 DEF Sends, Asks
    <3>4. \A l \in Lines : OnItsWay(l)' => Sends(w, l)' \/ (OnItsWay(l) /\ ~Sends(w, l))
      BY <3>2, <3>3 DEF OnItsWay
    <3> QED
      BY <1>2, <1>3, <2>1, <3>3, <3>4, LetGoSettled
  <2> QED
    BY <2>2, <2>3
<1>9. CASE MarkSending(w) \/ SendImage(w)
  <2>1. /\ me.at \in {"render", "send"} /\ me.on \in Lines /\ question' = question
        /\ \A l \in Lines \ {me.on} : line'[l] = line[l]
    BY <1>1, <1>9 DEF MarkSending, SendImage, HandSteps, tables
  <2>2. PICK step \in {"send", "answered", "unanswered"} : worker' = [worker EXCEPT ![w].at = step]
    BY <1>9 DEF MarkSending, SendImage
  <2>3. (\A l \in Lines : l = me.on => Sends(w, l)') /\ \A l \in Lines : ~Asks(w, l) /\ (l # me.on => ~Sends(w, l))
    BY <1>6, <2>1, <2>2 DEF Sends, Asks, Steps
  <2>4. \A l \in Lines : OnItsWay(l)' => Sends(w, l)' \/ (OnItsWay(l) /\ ~Sends(w, l))
    BY <2>1, <2>3 DEF OnItsWay
  <2> QED
    BY <1>2, <1>3, <2>1, <2>3, <2>4, LetGoSettled
<1>10. CASE RenderFails(w) \/ Record(w) \/ SettleUnknown(w)
  <2>1. /\ me.at \in {"render", "answered", "unanswered"} /\ me.on \in Lines /\ question' = question
    BY <1>1, <1>10 DEF RenderFails, Record, SettleUnknown, HandSteps
  <2>2. (\A l \in Lines : l = me.on => ~OnItsWay(l)') /\ \A l \in Lines \ {me.on} : line'[l] = line[l]
    <3>1. line[me.on] \in LineType
      BY <1>1, <2>1
    <3>2. /\ line'[me.on].state \in {"failed", "sent", "uncertain"}
          /\ \A l \in Lines \ {me.on} : line'[l] = line[l]
      <4>1. CASE RenderFails(w)
        BY <1>1, <2>1, <3>1, <4>1 DEF RenderFails, LineType
      <4>2. CASE Record(w)
        BY <1>1, <2>1, <3>1, <4>2 DEF Record, LineType
      <4>3. CASE SettleUnknown(w)
        BY <1>1, <2>1, <3>1, <4>3 DEF SettleUnknown, LineType
      <4> QED
        BY <1>10, <4>1, <4>2, <4>3
    <3> QED
      BY <3>2 DEF OnItsWay
  <2>3. \A l \in Lines : ~Asks(w, l) /\ (l # me.on => ~Sends(w, l))
    BY <2>1 DEF Asks, Sends
  <2>4. \A l \in Lines : OnItsWay(l)' => OnItsWay(l) /\ ~Sends(w, l)
    BY <2>2, <2>3 DEF OnItsWay
  <2> QED
    BY <1>2, <1>3, <2>1, <2>3, <2>4, LetGoSettled
<1>11. CASE Ask(w)
  <2>1. me.at = "ask" /\ me.on \in Lines /\ line' = line
    BY <1>1, <1>11 DEF Ask, HandSteps
  <2>2. CASE question' = question
    BY <1>2, <1>3, <2>1, <2>2, NobodysStep DEF OnItsWay
  <2>3. CASE question' # question
    <3>1. /\ worker' = [worker EXCEPT ![w].at = "card"]
          /\ question' = [question EXCEPT ![me.on] = "asking"]
      BY <1>11, <2>3 DEF Ask
    <3>2. (\A l \in Lines : l = me.on => Asks(w, l)') /\ \A l \in Lines \ {me.on} : question'[l] = question[l]
      BY <1>1, <1>6, <3>1 DEF Asks, Steps
    <3>3. \A l \in Lines : ~Sends(w, l) /\ ~Asks(w, l)
      BY <2>1 DEF Sends, Asks
    <3>4. \A l \in Lines : OnItsWay(l)' => OnItsWay(l)
      BY <2>1 DEF OnItsWay
    <3>5. \A l \in Lines : question'[l] = "asking" => Asks(w, l)' \/ question[l] = "asking"
      BY <3>2
    <3> QED
      BY <1>2, <1>3, <3>3, <3>4, <3>5, LetGoSettled
  <2> QED
    BY <2>2, <2>3
<1>12. CASE SendCard(w)
  <2>1. me.at = "card" /\ me.on \in Lines /\ line' = line
    BY <1>1, <1>12 DEF SendCard, HandSteps
  <2>2. /\ question'[me.on] # "asking"
        /\ \A l \in Lines \ {me.on} : question'[l] = question[l]
    BY <1>1, <1>12, <2>1 DEF SendCard
  <2>3. \A l \in Lines : ~Sends(w, l) /\ (l # me.on => ~Asks(w, l))
    BY <2>1 DEF Sends, Asks
  <2>4. \A l \in Lines : OnItsWay(l)' => OnItsWay(l)
    BY <2>1 DEF OnItsWay
  <2>5. \A l \in Lines : question'[l] = "asking" => question[l] = "asking" /\ ~Asks(w, l)
    BY <2>2, <2>3
  <2> QED
    BY <1>2, <1>3, <2>3, <2>4, <2>5, LetGoSettled
<1> QED
  BY <1>4, <1>5, <1>8, <1>9, <1>10, <1>11, <1>12 DEF LineStep

(* NothingIsLeftBehind: a failure to render, upload or send, a lost        *)
(* answer, a refused claim or an order that changes meanwhile never leaves *)
(* a line rendering, sending or asking for ever; only a restart does (or a *)
(* database that refuses the row which settles the line), and a person     *)
(* then has to look in the group.                                          *)
THEOREM LinesAreInHands == Spec => []NothingIsLeftBehind
<1>1. Init => NothingIsLeftBehind
  BY DEF Init, NothingIsLeftBehind, OnItsWay, NewLine
<1>2. TInv /\ NothingIsLeftBehind /\ [Next]_vars => NothingIsLeftBehind'
  <2> SUFFICES ASSUME TInv, NothingIsLeftBehind, [Next]_vars PROVE NothingIsLeftBehind'
    OBVIOUS
  <2>1. CASE Crash
    <3>1. crashes \in Nat /\ crashes' = crashes + 1
      BY <2>1, SheetAssumption DEF Crash, TInv, TypeOK
    <3> QED
      BY <3>1 DEF NothingIsLeftBehind
  <2>2. CASE UNCHANGED vars \/ \E l \in Lines : ChangeOrder(l)
    <3>1. worker' = worker /\ line' = line /\ question' = question /\ crashes' = crashes
      BY <2>2 DEF vars, tables, ChangeOrder
    <3> QED
      BY <3>1 DEF NothingIsLeftBehind, OnItsWay, Sends, Asks
  <2> QED
    BY <2>1, <2>2, AroundStep, LoopStep DEF Next
<1> QED
  BY <1>1, <1>2, TypesInit, TypesStep, PTL DEF Spec

=============================================================================
