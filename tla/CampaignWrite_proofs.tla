------------------------ MODULE CampaignWrite_proofs ------------------------
(***************************************************************************)
(* Proofs about CampaignWrite for any number of calls, manifests and       *)
(* restarts.                                                               *)
(***************************************************************************)
EXTENDS CampaignWrite, TLAPS

NotExported == [state |-> "failed_no_retry", why |-> "export"]

(* One call at a time works, it owns the attempt of its operation, and a   *)
(* recovery starts from an execution that has ended before the export.     *)
Turns ==
    /\ \A c, d \in Calls : Working(c) /\ Working(d) => c = d
    /\ \A c \in Calls :
         /\ Working(c) => outer[call[c].op].state =
                            IF call[c].at = "claim" THEN "prepared" ELSE "write_claimed"
         /\ call[c].at = "checked" => call[c].op = "recover"
         /\ call[c].at # "idle" /\ call[c].op = "recover" => outer["execute"] = NotExported
         /\ call[c].at \in {"discount", "discounted"} => call[c].op = "execute"
    /\ outer["recover"] # NoAttempt => outer["execute"] = NotExported

(* Every discount is in force; no new batch has entered a row. *)
Discounted == platform.live = Items
NoRows == \A i \in Items : platform.entered[i] = 0

(* What is still to be pushed and what is in force make up the plan. *)
Covers(c) == call[c].edits \cup call[c].fresh \cup platform.live = Items

(* How far a call is tells what is claimed and what the platform has.      *)
Sent ==
    /\ \A c \in Calls :
         /\ call[c].at \in {"claim", "discount", "discounted", "signup", "identity", "blocked", "claim_write"}
              => Claimed = {}
         /\ call[c].at \in {"close", "record"} /\ ~call[c].ok /\ call[c].why = "export"
              => Claimed = {} /\ Discounted
         /\ call[c].at \in {"identity", "blocked", "claim_write"} => call[c].scope \in Manifests
         /\ call[c].at \in {"upload", "proved", "unproved", "verified", "refused", "stop", "complete"}
              => call[c].scope \in Claimed
         /\ call[c].at = "upload" => platform.signups = 0
         /\ call[c].at \in {"discounted", "signup", "identity", "blocked", "claim_write", "upload"}
              => Discounted
         /\ call[c].at = "discount" => NoRows /\ Covers(c)
    /\ outer["execute"] = NotExported =>
         Discounted /\ (outer["recover"] = NoAttempt => Claimed = {})
    /\ outer["execute"].state \in {"none", "prepared"} => NoRows
    /\ Claimed = {} => platform.signups = 0
    /\ SignupNeedsDiscount /\ NewRowsOnce

Good == {"signup_pushed", "reconciled"}

(* A call that will report success has registered the plan. *)
Succeeds(c) ==
    \/ call[c].at = "complete"
    \/ call[c].at \in {"close", "record"} /\ call[c].ok

Registered ==
    /\ \A c \in Calls : Succeeds(c) => status \in Good
    /\ CompletedIsRegistered

IInv == TypeOK /\ Turns /\ Sent /\ Registered

CallType == [at : Steps, op : Ops, scope : Manifests \cup {None}, ok : BOOLEAN, why : Reasons,
             edits : SUBSET Items, fresh : SUBSET Items, retried : BOOLEAN]

-----------------------------------------------------------------------------
(* Moves of one call *)

(* The other calls stay where they are. *)
Moves(c, at, op, scope, ok, why) ==
    /\ call' \in [Calls -> CallType]
    /\ call'[c].at = at /\ call'[c].op = op /\ call'[c].scope = scope
    /\ call'[c].ok = ok /\ call'[c].why = why
    /\ \A d \in Calls \ {c} : call'[d] = call[d]

(* Goto changes only where the call is. *)
LEMMA GotoMoves ==
  ASSUME TypeOK, NEW c \in Calls, NEW step \in Steps, Goto(c, step)
  PROVE  Moves(c, step, call[c].op, call[c].scope, call[c].ok, call[c].why)
<1> DEFINE x == [call[c] EXCEPT !.at = step]
<1>1. call \in [Calls -> CallType] /\ call' = [call EXCEPT ![c] = x]
  BY DEF TypeOK, Goto, CallType
<1>2. x \in CallType
  BY <1>1 DEF CallType
<1>3. x.at = step /\ x.op = call[c].op /\ x.scope = call[c].scope
      /\ x.ok = call[c].ok /\ x.why = call[c].why
  BY <1>1 DEF CallType
<1> QED
  BY <1>1, <1>2, <1>3 DEF Moves

(* Return also says how it went. *)
LEMMA ReturnMoves ==
  ASSUME TypeOK, NEW c \in Calls, NEW good \in BOOLEAN, NEW step \in Reasons, Return(c, good, step)
  PROVE  Moves(c, "close", call[c].op, call[c].scope, good, step)
<1> DEFINE x == [call[c] EXCEPT !.at = "close", !.ok = good, !.why = step]
<1>1. call \in [Calls -> CallType] /\ call' = [call EXCEPT ![c] = x]
  BY DEF TypeOK, Return, CallType
<1>2. x \in CallType
  BY <1>1 DEF CallType, Steps
<1>3. x.at = "close" /\ x.op = call[c].op /\ x.scope = call[c].scope /\ x.ok = good /\ x.why = step
  BY <1>1 DEF CallType
<1> QED
  BY <1>1, <1>2, <1>3 DEF Moves

(* The other calls are not working. *)
LEMMA Alone ==
  ASSUME Turns, NEW c \in Calls, Working(c)
  PROVE  \A d \in Calls \ {c} : call[d].at \in {"idle", "checked"}
BY DEF Turns, Working

(* A working call that stays at work, with attempts and platform at rest.  *)
Stays(c, at, scope, ok, why) ==
    /\ Working(c) /\ call[c].at # "claim" /\ at \in Steps \ {"idle", "checked", "claim", "discount", "upload"}
    /\ Moves(c, at, call[c].op, scope, ok, why)
    /\ at = "discounted" => call[c].at = "discount"
    /\ outer' = outer /\ platform' = platform /\ ends' = ends
    /\ signup' \in [Manifests -> SignupStates] /\ Claimed' = Claimed
    /\ status' \in {"alarmed", "discount_pushed", "resume_executing"} \cup Good
    /\ at \in {"discounted", "signup", "identity", "blocked", "claim_write"} => Claimed = {} /\ Discounted
    /\ at \in {"close", "record"} /\ ~ok /\ why = "export" => Claimed = {} /\ Discounted
    /\ at \in {"identity", "blocked", "claim_write"} => scope \in Manifests
    /\ at \in {"proved", "unproved", "verified", "refused", "stop", "complete"} => scope \in Claimed
    /\ (at = "complete" \/ (at \in {"close", "record"} /\ ok)) => status' \in Good

(* It leaves the turns as they are. *)
LEMMA TurnsKept ==
  ASSUME IInv, NEW c \in Calls, Working(c), call[c].at # "claim", outer' = outer,
         call'[c].at \notin {"idle", "checked", "claim"},
         call'[c].at \in {"discount", "discounted"} => call[c].at = "discount",
         call'[c].op = call[c].op,
         \A d \in Calls \ {c} : call'[d] = call[d]
  PROVE  Turns'
<1>1. \A d \in Calls \ {c} : call[d].at \in {"idle", "checked"}
  BY Alone DEF IInv
<1>2. \A d, e \in Calls : Working(d)' /\ Working(e)' => d = e
  BY <1>1 DEF Working
<1>3. outer'[call'[c].op].state = "write_claimed"
  BY DEF IInv, Turns
<1> QED
  BY <1>2, <1>3 DEF IInv, Turns, Working

(* While a call works no operation has completed. *)
LEMMA NoneCompleted ==
  ASSUME IInv, NEW c \in Calls, Working(c)
  PROVE  outer["execute"].state # "completed" /\ outer["recover"].state # "completed"
<1>1. /\ call[c].op \in Ops /\ call[c].at # "idle"
      /\ outer[call[c].op].state \in {"prepared", "write_claimed"}
  BY DEF IInv, TypeOK, Turns, Working
<1>2. CASE call[c].op = "execute"
  <2>1. outer["execute"] # NotExported
    BY <1>1, <1>2 DEF NotExported
  <2>2. outer["recover"] = NoAttempt
    BY <2>1 DEF IInv, Turns
  <2> QED
    BY <2>2, <1>1, <1>2 DEF NoAttempt
<1>3. CASE call[c].op = "recover"
  <2>1. outer["execute"] = NotExported
    BY <1>1, <1>3 DEF IInv, Turns
  <2> QED
    BY <2>1, <1>1, <1>3 DEF NotExported
<1> QED
  BY <1>1, <1>2, <1>3 DEF Ops

-----------------------------------------------------------------------------
(* Every action preserves IInv *)

(* What is said of the platform stays true while it receives nothing. *)
LEMMA PlatformRests ==
  ASSUME IInv, platform' = platform
  PROVE  /\ Discounted' <=> Discounted
         /\ NoRows' <=> NoRows
         /\ SignupNeedsDiscount' /\ NewRowsOnce'
         /\ \A c \in Calls : call'[c] = call[c] => (Covers(c)' <=> Covers(c))
BY DEF IInv, Sent, Discounted, NoRows, SignupNeedsDiscount, NewRowsOnce, Covers

(* A call at work whose attempts and platform rest, whatever the reason.   *)
LEMMA StepKept ==
  ASSUME IInv, NEW c \in Calls, NEW at, NEW scope, NEW ok, NEW why, Stays(c, at, scope, ok, why)
  PROVE  IInv'
<1>1. /\ call'[c].at = at /\ call'[c].op = call[c].op /\ call'[c].scope = scope
      /\ call'[c].ok = ok /\ call'[c].why = why
      /\ \A d \in Calls \ {c} : call'[d] = call[d]
      /\ Working(c)
  BY DEF Stays, Moves
<1>2. \A d \in Calls \ {c} : call'[d].at \in {"idle", "checked"}
  BY <1>1, Alone DEF IInv
<1>3. TypeOK'
  BY DEF IInv, TypeOK, Stays, Moves, CallType, Good, ends
<1>4. Turns'
  BY <1>1, TurnsKept DEF Stays
<1>5. Sent'
  BY <1>1, <1>2, PlatformRests DEF IInv, Sent, Stays
<1>6. Registered'
  <2>1. outer["execute"].state # "completed" /\ outer["recover"].state # "completed"
    BY <1>1, NoneCompleted
  <2>2. CompletedIsRegistered'
    BY <2>1 DEF CompletedIsRegistered, Ops, Stays
  <2>3. (at = "complete" \/ (at \in {"close", "record"} /\ ok)) => status' \in Good
    BY DEF Stays
  <2>4. Succeeds(c)' => status' \in Good
    BY <1>1, <2>3 DEF Succeeds
  <2>5. \A d \in Calls \ {c} : ~Succeeds(d)'
    BY <1>2 DEF Succeeds
  <2> QED
    BY <2>2, <2>4, <2>5 DEF Registered
<1> QED
  BY <1>3, <1>4, <1>5, <1>6 DEF IInv

(* The steps that write no row but the plan's status. *)
LEMMA StatusSteps ==
  ASSUME IInv, NEW c \in Calls,
         \/ CommitDiscount(c) \/ EndBeforeAttempt(c) \/ StopBlocked(c) \/ StopRefused(c)
         \/ PushPlan(c) \/ Close(c) \/ Raise(c)
  PROVE  IInv'
<1>1. TypeOK
  BY DEF IInv
<1>2. Working(c) /\ call[c].at # "claim"
  BY DEF CommitDiscount, EndBeforeAttempt, StopBlocked, StopRefused, PushPlan, Close, Raise, Working
<1>3. outer' = outer /\ platform' = platform /\ ends' = ends /\ signup' = signup
  BY DEF CommitDiscount, EndBeforeAttempt, StopBlocked, StopRefused, PushPlan, Close, Raise
<1>4. signup' \in [Manifests -> SignupStates] /\ Claimed' = Claimed
  BY <1>1, <1>3 DEF TypeOK, Claimed
<1>5. status \in {"alarmed", "discount_pushed", "resume_executing"} \cup Good
  BY <1>1 DEF TypeOK, Good
<1>6. CASE CommitDiscount(c)
  <2>1. Moves(c, "signup", call[c].op, call[c].scope, call[c].ok, call[c].why)
    BY <1>1, <1>6, GotoMoves DEF CommitDiscount, Steps
  <2>2. Claimed = {} /\ Discounted /\ status' = "discount_pushed"
    BY <1>6 DEF CommitDiscount, IInv, Sent
  <2>3. Stays(c, "signup", call[c].scope, call[c].ok, call[c].why)
    BY <1>2, <1>3, <1>4, <2>1, <2>2 DEF Stays, Steps
  <2> QED
    BY <2>3, StepKept
<1>7. CASE EndBeforeAttempt(c)
  <2>1. Claimed = {} /\ Discounted
    BY <1>7 DEF EndBeforeAttempt, IInv, Sent
  <2>2. PICK good \in BOOLEAN, why \in {"export", "guard", "none"} :
          /\ Return(c, good, why) /\ (good => status' \in Good)
          /\ status' \in {"alarmed", status} \cup Good
    BY <1>7 DEF EndBeforeAttempt, Stop, Good
  <2>3. Moves(c, "close", call[c].op, call[c].scope, good, why)
    BY <1>1, <2>2, ReturnMoves DEF Reasons
  <2>4. Stays(c, "close", call[c].scope, good, why)
    BY <1>2, <1>3, <1>4, <1>5, <2>1, <2>2, <2>3 DEF Stays, Steps
  <2> QED
    BY <2>4, StepKept
<1>8. CASE StopBlocked(c) \/ StopRefused(c)
  <2>1. PICK why \in {"identity", "signup"} :
          Moves(c, "close", call[c].op, call[c].scope, FALSE, why) /\ status' = "alarmed"
    BY <1>1, <1>8, ReturnMoves DEF StopBlocked, StopRefused, Stop, Reasons
  <2>2. Stays(c, "close", call[c].scope, FALSE, why)
    BY <1>2, <1>3, <1>4, <2>1 DEF Stays, Steps
  <2> QED
    BY <2>2, StepKept
<1>9. CASE PushPlan(c)
  <2>1. Moves(c, "complete", call[c].op, call[c].scope, call[c].ok, call[c].why)
    BY <1>1, <1>9, GotoMoves DEF PushPlan, Steps
  <2>2. status' \in Good /\ call[c].scope \in Claimed
    BY <1>9 DEF PushPlan, Good, IInv, Sent
  <2>3. Stays(c, "complete", call[c].scope, call[c].ok, call[c].why)
    BY <1>2, <1>3, <1>4, <2>1, <2>2 DEF Stays, Steps
  <2> QED
    BY <2>3, StepKept
<1>10. CASE Close(c)
  <2>1. Moves(c, "record", call[c].op, call[c].scope, call[c].ok, call[c].why)
    BY <1>1, <1>10, GotoMoves DEF Close, Steps
  <2>2. call[c].at = "close" /\ status' \in {"alarmed", status} /\ (call[c].ok => status' = status)
    BY <1>10 DEF Close, Alarm
  <2>3. call[c].ok => status' \in Good
    BY <2>2 DEF IInv, Registered, Succeeds
  <2>4. ~call[c].ok /\ call[c].why = "export" => Claimed = {} /\ Discounted
    BY <2>2 DEF IInv, Sent
  <2>5. Stays(c, "record", call[c].scope, call[c].ok, call[c].why)
    BY <1>2, <1>3, <1>4, <1>5, <2>1, <2>2, <2>3, <2>4 DEF Stays, Steps
  <2> QED
    BY <2>5, StepKept
<1>11. CASE Raise(c)
  <2>1. Moves(c, "raised", call[c].op, call[c].scope, call[c].ok, call[c].why)
    BY <1>1, <1>11, GotoMoves DEF Raise, Steps
  <2>2. status' \in {"alarmed", status}
    BY <1>11 DEF Raise, Alarm
  <2>3. Stays(c, "raised", call[c].scope, call[c].ok, call[c].why)
    BY <1>2, <1>3, <1>4, <1>5, <2>1, <2>2 DEF Stays, Steps
  <2> QED
    BY <2>3, StepKept
<1> QED
  BY <1>6, <1>7, <1>8, <1>9, <1>10, <1>11

(* The steps that write the attempt of a manifest and do not claim it. *)
LEMMA AttemptSteps ==
  ASSUME IInv, NEW c \in Calls,
         \/ \E m \in Manifests : EnsureAttempt(c, m)
         \/ CheckIdentity(c) \/ RecordTerminal(c) \/ Refuse(c) \/ Complete(c)
         \/ ClaimWrite(c) /\ signup' = signup
  PROVE  IInv'
<1>1. TypeOK
  BY DEF IInv
<1>2. Working(c) /\ call[c].at # "claim"
  BY DEF EnsureAttempt, CheckIdentity, RecordTerminal, Refuse, Complete, ClaimWrite, Working
<1>3. outer' = outer /\ platform' = platform /\ ends' = ends
  BY DEF EnsureAttempt, CheckIdentity, RecordTerminal, Refuse, Complete, ClaimWrite
<1>4. status \in {"alarmed", "discount_pushed", "resume_executing"} \cup Good
  BY <1>1 DEF TypeOK, Good
<1>5. ASSUME NEW m \in Manifests, EnsureAttempt(c, m) PROVE IInv'
  <2>1. Moves(c, "identity", call[c].op, m, call[c].ok, call[c].why)
    <3> DEFINE x == [call[c] EXCEPT !.at = "identity", !.scope = m]
    <3>1. call \in [Calls -> CallType] /\ call' = [call EXCEPT ![c] = x]
      BY <1>1, <1>5 DEF TypeOK, EnsureAttempt, CallType
    <3>2. x \in CallType
      BY <3>1 DEF CallType, Steps
    <3>3. x.at = "identity" /\ x.op = call[c].op /\ x.scope = m
          /\ x.ok = call[c].ok /\ x.why = call[c].why
      BY <3>1 DEF CallType
    <3> QED
      BY <3>1, <3>2, <3>3 DEF Moves
  <2>2. Claimed = {} /\ Discounted /\ status' = status
    BY <1>5 DEF EnsureAttempt, IInv, Sent
  <2>3. signup' \in [Manifests -> SignupStates] /\ Claimed' = Claimed
    BY <1>1, <1>5 DEF EnsureAttempt, TypeOK, SignupStates, Claimed
  <2>4. Stays(c, "identity", m, call[c].ok, call[c].why)
    BY <1>2, <1>3, <1>4, <2>1, <2>2, <2>3 DEF Stays, Steps
  <2> QED
    BY <2>4, StepKept
<1>6. CASE CheckIdentity(c)
  <2>1. Claimed = {} /\ Discounted /\ call[c].scope \in Manifests
    BY <1>6 DEF CheckIdentity, IInv, Sent
  <2>2. signup' \in [Manifests -> SignupStates] /\ Claimed' = Claimed
    <3>1. signup \in [Manifests -> SignupStates]
      BY <1>1 DEF TypeOK, SignupStates
    <3>2. CASE signup' = signup
      BY <3>1, <3>2 DEF Claimed
    <3>3. ASSUME NEW to \in {"retryable_prewrite", "blocked_prewrite"},
                 signup' = [signup EXCEPT ![call[c].scope] = to]
          PROVE  signup' \in [Manifests -> SignupStates] /\ Claimed' = Claimed
      <4>1. signup' \in [Manifests -> SignupStates]
        BY <2>1, <3>1, <3>3 DEF SignupStates
      <4>2. call[c].scope \notin Claimed
        BY <2>1
      <4> QED
        BY <2>1, <3>1, <3>3, <4>1, <4>2 DEF Claimed
    <3> QED
      BY <1>6, <3>2, <3>3 DEF CheckIdentity
  <2>3. ASSUME NEW at \in {"claim_write", "blocked"}, Goto(c, at), status' = status PROVE IInv'
    <3>1. Moves(c, at, call[c].op, call[c].scope, call[c].ok, call[c].why)
      BY <1>1, <2>3, GotoMoves DEF Steps
    <3>2. Stays(c, at, call[c].scope, call[c].ok, call[c].why)
      BY <1>2, <1>3, <1>4, <2>1, <2>2, <2>3, <3>1 DEF Stays, Steps
    <3> QED
      BY <3>2, StepKept
  <2>4. ASSUME NEW why \in {"guard", "identity"}, Return(c, FALSE, why), status' \in {status, "alarmed"}
        PROVE  IInv'
    <3>1. Moves(c, "close", call[c].op, call[c].scope, FALSE, why)
      BY <1>1, <2>4, ReturnMoves DEF Reasons
    <3>2. Stays(c, "close", call[c].scope, FALSE, why)
      BY <1>2, <1>3, <1>4, <2>1, <2>2, <2>4, <3>1 DEF Stays, Steps
    <3> QED
      BY <3>2, StepKept
  <2> QED
    BY <1>6, <2>3, <2>4 DEF CheckIdentity, Stop
<1>7. CASE RecordTerminal(c) \/ Refuse(c)
  <2>1. PICK at \in {"verified", "refused", "stop"} : Goto(c, at)
    BY <1>7 DEF RecordTerminal, Refuse
  <2>2. Moves(c, at, call[c].op, call[c].scope, call[c].ok, call[c].why)
    BY <1>1, <2>1, GotoMoves DEF Steps
  <2>3. call[c].scope \in Claimed /\ status' = status
    BY <1>7 DEF RecordTerminal, Refuse, IInv, Sent
  <2>4. signup' \in [Manifests -> SignupStates] /\ Claimed' = Claimed
    BY <1>1, <1>7, <2>3 DEF RecordTerminal, Refuse, TypeOK, SignupStates, Claimed
  <2>5. Stays(c, at, call[c].scope, call[c].ok, call[c].why)
    BY <1>2, <1>3, <1>4, <2>2, <2>3, <2>4 DEF Stays, Steps
  <2> QED
    BY <2>5, StepKept
<1>8. CASE Complete(c)
  <2>1. Moves(c, "close", call[c].op, call[c].scope, TRUE, "none")
    BY <1>1, <1>8, ReturnMoves DEF Complete, Reasons
  <2>2. call[c].scope \in Claimed /\ status' = status /\ status \in Good
    <3>0. call[c].at = "complete" /\ status' = status
      BY <1>8 DEF Complete
    <3>1. Succeeds(c)
      BY <3>0 DEF Succeeds
    <3>2. call[c].scope \in Claimed
      BY <3>0 DEF IInv, Sent
    <3>3. status \in Good
      BY <3>1 DEF IInv, Registered
    <3> QED
      BY <3>0, <3>2, <3>3
  <2>3. signup' \in [Manifests -> SignupStates] /\ Claimed' = Claimed
    BY <1>1, <1>8, <2>2 DEF Complete, TypeOK, SignupStates, Claimed
  <2>4. Stays(c, "close", call[c].scope, TRUE, "none")
    BY <1>2, <1>3, <1>4, <2>1, <2>2, <2>3 DEF Stays, Steps
  <2> QED
    BY <2>4, StepKept
<1>9. CASE ClaimWrite(c) /\ signup' = signup
  <2>1. call[c].scope \in Manifests /\ Claimed = {}
    BY <1>9 DEF ClaimWrite, IInv, Sent
  <2>2. signup \in [Manifests -> SignupStates] /\ Claimed' = Claimed
    BY <1>1, <1>9 DEF TypeOK, Claimed
  <2>3. Stop(c, "guard")
    BY <1>9, <2>1, <2>2 DEF ClaimWrite
  <2>4. Moves(c, "close", call[c].op, call[c].scope, FALSE, "guard") /\ status' = "alarmed"
    BY <1>1, <2>3, ReturnMoves DEF Stop, Reasons
  <2>5. Stays(c, "close", call[c].scope, FALSE, "guard")
    BY <1>2, <1>3, <1>9, <2>2, <2>4 DEF Stays, Steps
  <2> QED
    BY <2>5, StepKept
<1> QED
  BY <1>5, <1>6, <1>7, <1>8, <1>9

(* The claim of a manifest: from here on the plan has one. *)
LEMMA ClaimStep == ASSUME IInv, NEW c \in Calls, ClaimWrite(c), signup' # signup PROVE IInv'
<1> DEFINE m == call[c].scope
<1>1. TypeOK
  BY DEF IInv
<1>2. /\ call[c].at = "claim_write" /\ Working(c) /\ m \in Manifests
      /\ Claimed = {} /\ Discounted /\ platform.signups = 0
  BY DEF ClaimWrite, Working, IInv, Sent
<1>3. /\ signup' = [signup EXCEPT ![m] = "write_claimed"] /\ Goto(c, "upload")
      /\ UNCHANGED <<status, outer, platform, ends>>
  BY DEF ClaimWrite
<1>4. Moves(c, "upload", call[c].op, m, call[c].ok, call[c].why)
  BY <1>1, <1>3, GotoMoves DEF Steps
<1>5. /\ call'[c].at = "upload" /\ call'[c].op = call[c].op /\ call'[c].scope = m
      /\ \A d \in Calls \ {c} : call'[d] = call[d]
      /\ \A d \in Calls \ {c} : call'[d].at \in {"idle", "checked"}
  BY <1>2, <1>4, Alone DEF Moves, IInv
<1>6. m \in Claimed'
  BY <1>1, <1>2, <1>3 DEF Claimed, TypeOK
<1>7. TypeOK'
  BY <1>1, <1>2, <1>3, <1>4 DEF TypeOK, Moves, CallType, SignupStates, ends
<1>8. Turns'
  BY <1>2, <1>3, <1>5, TurnsKept
<1>9. Sent'
  <2>1. outer["execute"] = NotExported => outer["recover"] # NoAttempt
    BY <1>2 DEF IInv, TypeOK, Turns, Working, NotExported, Ops, NoAttempt
  <2> QED
    BY <1>2, <1>3, <1>5, <1>6, <2>1, PlatformRests DEF IInv, Sent
<1>10. Registered'
  BY <1>3, <1>5 DEF IInv, Registered, CompletedIsRegistered, Succeeds
<1> QED
  BY <1>7, <1>8, <1>9, <1>10 DEF IInv

(* What the platform knows after a batch. *)
LEMMA EnterFacts ==
  ASSUME TypeOK, NEW some \in SUBSET Items, Enter(some)
  PROVE  /\ platform' \in [live : SUBSET Items, entered : [Items -> Nat], signups : Nat]
         /\ platform'.live = platform.live \cup some /\ platform'.signups = platform.signups
         /\ NoRows => NewRowsOnce'
<1>1. platform \in [live : SUBSET Items, entered : [Items -> Nat], signups : Nat]
  BY DEF TypeOK
<1> DEFINE n == [i \in Items |-> IF i \in some THEN platform.entered[i] + 1 ELSE platform.entered[i]]
<1>2. platform' = [live |-> platform.live \cup some, entered |-> n, signups |-> platform.signups]
  BY <1>1 DEF Enter
<1>3. n \in [Items -> Nat]
  BY <1>1
<1>4. NoRows => \A i \in Items : n[i] <= 1
  BY <1>1 DEF NoRows
<1> QED
  BY <1>1, <1>2, <1>3, <1>4 DEF NewRowsOnce

(* A step of push_discount, whatever it has sent. *)
Pushes(c, at, ok, why) ==
    /\ call[c].at = "discount" /\ at \in {"discount", "discounted", "close"}
    /\ Moves(c, at, call[c].op, call[c].scope, ok, why)
    /\ at = "close" => ~ok /\ why = "discount"
    /\ platform' \in [live : SUBSET Items, entered : [Items -> Nat], signups : Nat]
    /\ platform.live \subseteq platform'.live /\ platform'.signups = platform.signups
    /\ NewRowsOnce'
    /\ at = "discount" => NoRows' /\ Covers(c)'
    /\ at = "discounted" => Discounted'
    /\ UNCHANGED <<rows, ends>>

(* It keeps the invariant. *)
LEMMA PushKept ==
  ASSUME IInv, NEW c \in Calls, NEW at, NEW ok, NEW why, Pushes(c, at, ok, why)
  PROVE  IInv'
<1>1. /\ call'[c].at = at /\ call'[c].op = call[c].op /\ call'[c].scope = call[c].scope
      /\ call'[c].ok = ok /\ call'[c].why = why
      /\ \A d \in Calls \ {c} : call'[d] = call[d]
      /\ call[c].at = "discount" /\ Working(c)
      /\ at \in {"discount", "discounted", "close"}
      /\ at = "close" => ~ok /\ why = "discount"
  BY DEF Pushes, Moves, Working
<1>2. \A d \in Calls \ {c} : call'[d].at \in {"idle", "checked"}
  BY <1>1, Alone DEF IInv
<1>3. UNCHANGED <<status, outer, signup, lost, crashes>> /\ Claimed' = Claimed
  BY DEF Pushes, rows, ends, Claimed
<1>4. TypeOK'
  BY <1>3 DEF IInv, TypeOK, Pushes, Moves, CallType
<1>5. Turns'
  BY <1>1, <1>3, TurnsKept
<1>6. Sent'
  <2>1. Claimed = {} /\ call[c].op = "execute"
    BY <1>1 DEF IInv, Sent, Turns
  <2>2. outer["execute"].state = "write_claimed"
    BY <1>1, <2>1 DEF IInv, Turns
  <2>3. outer["execute"] # NotExported
    BY <2>2 DEF NotExported
  <2>4. platform.signups = 0
    BY <2>1 DEF IInv, Sent
  <2>5. /\ platform'.signups = platform.signups /\ NewRowsOnce'
        /\ at = "discount" => NoRows' /\ Covers(c)'
        /\ at = "discounted" => Discounted'
    BY DEF Pushes
  <2>6. SignupNeedsDiscount'
    BY <2>4, <2>5 DEF SignupNeedsDiscount
  <2>7. /\ call'[c].at \in {"claim", "discount", "discounted"} => Claimed' = {}
        /\ call'[c].at = "discount" => NoRows' /\ Covers(c)'
        /\ call'[c].at = "discounted" => Discounted'
        /\ call'[c].at \in {"close", "record"} => call'[c].why # "export"
    BY <1>1, <1>3, <2>1, <2>5
  <2> QED
    BY <1>1, <1>2, <1>3, <2>1, <2>2, <2>3, <2>4, <2>5, <2>6, <2>7 DEF Sent
<1>7. Registered'
  BY <1>1, <1>2, <1>3 DEF IInv, Registered, CompletedIsRegistered, Succeeds
<1> QED
  BY <1>4, <1>5, <1>6, <1>7 DEF IInv

(* What push_discount makes the platform receive. *)
LEMMA PushSteps ==
  ASSUME IInv, NEW c \in Calls, EditActivity(c) \/ NewBatch(c) PROVE IInv'
<1>1. TypeOK
  BY DEF IInv
<1>2. /\ call[c].at = "discount" /\ UNCHANGED <<rows, ends>>
      /\ call \in [Calls -> CallType] /\ call[c].ok \in BOOLEAN /\ call[c].why \in Reasons
      /\ call[c].edits \subseteq Items /\ call[c].fresh \subseteq Items
      /\ platform \in [live : SUBSET Items, entered : [Items -> Nat], signups : Nat]
  BY <1>1 DEF EditActivity, NewBatch, TypeOK, CallType
<1>3. NoRows /\ Covers(c) /\ NewRowsOnce
  BY <1>2 DEF IInv, Sent
<1>4. CASE EditActivity(c)
  <2>1. PICK i \in call[c].edits :
          \/ /\ platform' = [platform EXCEPT !.live = @ \cup {i}]
             /\ call' = [call EXCEPT ![c].edits = @ \ {i}]
          \/ /\ platform' = [platform EXCEPT !.live = @ \cup {i}] \/ UNCHANGED platform
             /\ Return(c, FALSE, "discount")
    BY <1>4 DEF EditActivity
  <2>2. /\ platform' \in [live : SUBSET Items, entered : [Items -> Nat], signups : Nat]
        /\ platform.live \subseteq platform'.live /\ platform'.signups = platform.signups
        /\ platform'.entered = platform.entered
    <3>1. \/ platform' = [live |-> platform.live \cup {i}, entered |-> platform.entered,
                          signups |-> platform.signups]
          \/ platform' = platform
      BY <1>2, <2>1
    <3> QED
      BY <1>2, <3>1
  <2>3. NoRows' /\ NewRowsOnce'
    BY <1>3, <2>2 DEF NoRows, NewRowsOnce
  <2>4. CASE Return(c, FALSE, "discount")
    <3>1. Moves(c, "close", call[c].op, call[c].scope, FALSE, "discount")
      BY <1>1, <2>4, ReturnMoves DEF Reasons
    <3>2. Pushes(c, "close", FALSE, "discount")
      BY <1>2, <2>2, <2>3, <3>1 DEF Pushes
    <3> QED
      BY <3>2, PushKept
  <2>5. CASE /\ platform' = [platform EXCEPT !.live = @ \cup {i}]
             /\ call' = [call EXCEPT ![c].edits = @ \ {i}]
    <3> DEFINE x == [call[c] EXCEPT !.edits = @ \ {i}]
    <3>1. /\ call' = [call EXCEPT ![c] = x] /\ x \in CallType
          /\ x.at = "discount" /\ x.op = call[c].op /\ x.scope = call[c].scope
          /\ x.ok = call[c].ok /\ x.why = call[c].why
          /\ x.edits = call[c].edits \ {i} /\ x.fresh = call[c].fresh
      BY <1>2, <2>5 DEF CallType
    <3>2. call'[c] = x /\ platform'.live = platform.live \cup {i}
      BY <1>2, <2>5, <3>1
    <3>3. Covers(c)'
      BY <1>3, <3>1, <3>2 DEF Covers
    <3>4. Moves(c, "discount", call[c].op, call[c].scope, call[c].ok, call[c].why)
      BY <1>2, <3>1 DEF Moves
    <3>5. Pushes(c, "discount", call[c].ok, call[c].why)
      BY <1>2, <2>2, <2>3, <3>3, <3>4 DEF Pushes
    <3> QED
      BY <3>5, PushKept
  <2> QED
    BY <2>1, <2>4, <2>5
<1>5. CASE NewBatch(c)
  <2> DEFINE fresh == call[c].fresh
  <2>1. CASE Enter(fresh) /\ Goto(c, "discounted")
    <3>1. call[c].edits = {}
      BY <1>5 DEF NewBatch
    <3>2. Discounted'
      BY <1>1, <1>2, <1>3, <2>1, <3>1, EnterFacts DEF Covers, Discounted
    <3>3. Moves(c, "discounted", call[c].op, call[c].scope, call[c].ok, call[c].why)
      BY <1>1, <2>1, GotoMoves DEF Steps
    <3>4. Pushes(c, "discounted", call[c].ok, call[c].why)
      BY <1>1, <1>2, <1>3, <2>1, <3>2, <3>3, EnterFacts DEF Pushes
    <3> QED
      BY <3>4, PushKept
  <2>2. ASSUME NEW some \in SUBSET fresh, Enter(some), Return(c, FALSE, "discount") PROVE IInv'
    <3>1. Moves(c, "close", call[c].op, call[c].scope, FALSE, "discount")
      BY <1>1, <2>2, ReturnMoves DEF Reasons
    <3>2. some \in SUBSET Items
      BY <1>2
    <3>3. Pushes(c, "close", FALSE, "discount")
      BY <1>1, <1>2, <1>3, <2>2, <3>1, <3>2, EnterFacts DEF Pushes
    <3> QED
      BY <3>3, PushKept
  <2>3. ASSUME NEW found \in SUBSET fresh, PushAgain(c, found), UNCHANGED platform PROVE IInv'
    <3> DEFINE x == [call[c] EXCEPT !.edits = (Items \ fresh) \cup found,
                                    !.fresh = fresh \ found, !.retried = TRUE]
    <3>1. /\ call' = [call EXCEPT ![c] = x] /\ x \in CallType
          /\ x.at = "discount" /\ x.op = call[c].op /\ x.scope = call[c].scope
          /\ x.ok = call[c].ok /\ x.why = call[c].why
          /\ x.edits = (Items \ fresh) \cup found /\ x.fresh = fresh \ found
      BY <1>2, <2>3 DEF PushAgain, CallType
    <3>2. call'[c] = x /\ platform' = platform
      BY <1>2, <2>3, <3>1
    <3>3. Covers(c)' /\ NoRows' /\ NewRowsOnce'
      BY <1>2, <1>3, <3>1, <3>2 DEF Covers, NoRows, NewRowsOnce
    <3>4. Moves(c, "discount", call[c].op, call[c].scope, call[c].ok, call[c].why)
      BY <1>2, <3>1 DEF Moves
    <3>5. Pushes(c, "discount", call[c].ok, call[c].why)
      BY <1>2, <3>2, <3>3, <3>4 DEF Pushes
    <3> QED
      BY <3>5, PushKept
  <2> QED
    BY <1>5, <2>1, <2>2, <2>3 DEF NewBatch
<1> QED
  BY <1>4, <1>5

(* The platform receives the sign-up, or does not. *)
LEMMA UploadSignupStep == ASSUME IInv, NEW c \in Calls, UploadSignup(c) PROVE IInv'
<1>1. TypeOK
  BY DEF IInv
<1>2. call[c].at = "upload" /\ Working(c) /\ UNCHANGED <<status, outer, signup, lost, crashes>>
      /\ Claimed' = Claimed
  BY DEF UploadSignup, Working, rows, ends, Claimed
<1>3. PICK at \in {"proved", "unproved"} : Goto(c, at)
  BY DEF UploadSignup
<1>4. Moves(c, at, call[c].op, call[c].scope, call[c].ok, call[c].why)
  BY <1>1, <1>3, GotoMoves DEF Steps
<1>5. /\ call'[c].at = at /\ call'[c].op = call[c].op /\ call'[c].scope = call[c].scope
      /\ \A d \in Calls \ {c} : call'[d] = call[d]
      /\ \A d \in Calls \ {c} : call'[d].at \in {"idle", "checked"}
  BY <1>2, <1>4, Alone DEF Moves, IInv
<1>6. /\ platform' \in [live : SUBSET Items, entered : [Items -> Nat], signups : Nat]
      /\ platform'.live = platform.live /\ platform'.entered = platform.entered
  BY <1>1 DEF UploadSignup, TypeOK
<1>7. call[c].scope \in Claimed /\ Discounted
  BY <1>2 DEF IInv, Sent
<1>8. Discounted' /\ (NoRows => NoRows') /\ NewRowsOnce'
  BY <1>6, <1>7 DEF IInv, Sent, Discounted, NoRows, NewRowsOnce
<1>9. TypeOK'
  BY <1>1, <1>2, <1>4, <1>6 DEF TypeOK, Moves, CallType
<1>10. Turns'
  BY <1>2, <1>5, TurnsKept
<1>11. SignupNeedsDiscount'
  BY <1>8 DEF SignupNeedsDiscount, Discounted
<1>12. Sent'
  BY <1>2, <1>5, <1>7, <1>8, <1>11 DEF IInv, Sent
<1>13. Registered'
  BY <1>2, <1>5 DEF IInv, Registered, CompletedIsRegistered, Succeeds
<1> QED
  BY <1>9, <1>10, <1>12, <1>13 DEF IInv

-----------------------------------------------------------------------------
(* Beginning and end of an operation, and the restart *)

(* A call that has nothing to do with the plan any more. *)
LEMMA IdleFacts ==
  /\ Idle \in CallType /\ Idle.at = "idle"
  /\ \A at \in Steps, op \in Ops : /\ [Idle EXCEPT !.at = at, !.op = op] \in CallType
                                   /\ [Idle EXCEPT !.at = at, !.op = op].at = at
                                   /\ [Idle EXCEPT !.at = at, !.op = op].op = op
BY DEF Idle, CallType, Steps, Ops, Reasons

(* While the execution has no attempt, nothing is under way. *)
LEMMA NothingYet ==
  ASSUME IInv, outer["execute"] = NoAttempt
  PROVE  /\ outer["recover"] = NoAttempt /\ \A c \in Calls : call[c].at = "idle"
<1>1. outer["execute"] # NotExported
  BY DEF NoAttempt, NotExported
<1>2. ASSUME NEW c \in Calls, call[c].at # "idle" PROVE FALSE
  <2>1. call[c].op = "execute"
    BY <1>1, <1>2 DEF IInv, TypeOK, Turns, Ops
  <2>2. Working(c)
    BY <1>2, <2>1 DEF IInv, Turns, Working
  <2>3. outer["execute"].state \in {"prepared", "write_claimed"}
    BY <2>1, <2>2 DEF IInv, Turns
  <2> QED
    BY <2>3 DEF NoAttempt
<1> QED
  BY <1>1, <1>2 DEF IInv, Turns

(* The execution claims its attempt. *)
LEMMA ExecuteStep == ASSUME IInv, NEW c \in Calls, Execute(c) PROVE IInv'
<1> DEFINE x == [Idle EXCEPT !.at = "claim", !.op = "execute"]
<1>1. TypeOK
  BY DEF IInv
<1>2. /\ outer["execute"] = NoAttempt /\ Claimed = {}
      /\ outer' = [outer EXCEPT !["execute"] = [state |-> "prepared", why |-> "none"]]
      /\ call' = [call EXCEPT ![c] = x] /\ UNCHANGED <<status, signup, platform, ends>>
  BY DEF Execute
<1>3. x \in CallType /\ x.at = "claim" /\ x.op = "execute"
  BY IdleFacts DEF Steps, Ops
<1>4. outer["recover"] = NoAttempt /\ \A d \in Calls : call[d].at = "idle"
  BY <1>2, NothingYet
<1>5. /\ call' \in [Calls -> CallType] /\ call'[c].at = "claim" /\ call'[c].op = "execute"
      /\ \A d \in Calls \ {c} : call'[d].at = "idle"
  BY <1>1, <1>2, <1>3, <1>4 DEF TypeOK, CallType
<1>6. /\ outer' \in [Ops -> [state : OuterStates, why : Reasons]]
      /\ outer'["execute"].state = "prepared" /\ outer'["recover"] = NoAttempt
  BY <1>1, <1>2, <1>4 DEF TypeOK, Ops, OuterStates, Reasons
<1>7. TypeOK'
  BY <1>1, <1>2, <1>5, <1>6 DEF TypeOK, CallType, ends
<1>8. Turns'
  BY <1>5, <1>6 DEF Turns, Working
<1>9. Sent'
  <2>1. Claimed' = {} /\ platform' = platform /\ NoRows /\ platform.signups = 0
    BY <1>2 DEF Claimed, IInv, Sent, NoAttempt
  <2>2. outer'["execute"] # NotExported
    BY <1>6 DEF NotExported
  <2> QED
    BY <1>1, <1>5, <2>1, <2>2, PlatformRests DEF IInv, Sent, TypeOK
<1>10. Registered'
  BY <1>5, <1>6 DEF Registered, Succeeds, CompletedIsRegistered, Ops, NoAttempt
<1> QED
  BY <1>7, <1>8, <1>9, <1>10 DEF IInv

(* A recovery looks, and may go away again. *)
LEMMA LookSteps ==
  ASSUME IInv, NEW c \in Calls, Recover(c) \/ (InsertRecovery(c) /\ call'[c] = Idle) PROVE IInv'
<1>1. TypeOK
  BY DEF IInv
<1>2. PICK x \in CallType : /\ call' = [call EXCEPT ![c] = x]
                            /\ \/ x.at = "idle"
                               \/ /\ x.at = "checked" /\ x.op = "recover"
                                  /\ outer["execute"] = NotExported
                            /\ UNCHANGED <<outer, status, signup, platform, ends>>
  <2>1. CASE Recover(c)
    <3> DEFINE y == [Idle EXCEPT !.at = "checked", !.op = "recover"]
    <3>1. y \in CallType /\ y.at = "checked" /\ y.op = "recover"
      BY IdleFacts DEF Steps, Ops
    <3> QED
      BY <2>1, <3>1 DEF Recover, MayRecover, NotExported, rows
  <2>2. CASE InsertRecovery(c) /\ call'[c] = Idle
    <3>1. call' = [call EXCEPT ![c].at = "claim"] => call'[c].at = "claim"
      BY <1>1 DEF TypeOK
    <3>2. call'[c].at # "claim"
      BY <2>2, IdleFacts
    <3>3. ~Goto(c, "claim")
      BY <3>1, <3>2 DEF Goto
    <3>4. call' = [call EXCEPT ![c] = Idle] /\ UNCHANGED <<outer, status, signup, platform, ends>>
      BY <2>2, <3>3 DEF InsertRecovery
    <3> QED
      BY <3>4, IdleFacts
  <2> QED
    BY <2>1, <2>2
<1>3. /\ call' \in [Calls -> CallType] /\ call'[c] = x
      /\ \A d \in Calls \ {c} : call'[d] = call[d]
  BY <1>1, <1>2 DEF TypeOK, CallType
<1>4. TypeOK'
  BY <1>1, <1>2, <1>3 DEF TypeOK, CallType, ends
<1>5. Turns'
  BY <1>2, <1>3 DEF IInv, Turns, Working
<1>6. Sent'
  <2>1. Claimed' = Claimed
    BY <1>2 DEF Claimed
  <2> QED
    BY <1>2, <1>3, <2>1, PlatformRests DEF IInv, Sent
<1>7. Registered'
  <2>1. ~Succeeds(c)'
    BY <1>2, <1>3 DEF Succeeds
  <2>2. \A d \in Calls \ {c} : Succeeds(d)' <=> Succeeds(d)
    BY <1>3 DEF Succeeds
  <2> QED
    BY <1>2, <2>1, <2>2 DEF IInv, Registered, CompletedIsRegistered
<1> QED
  BY <1>4, <1>5, <1>6, <1>7 DEF IInv

(* A recovery claims its attempt: the execution sent no sign-up. *)
LEMMA InsertStep ==
  ASSUME IInv, NEW c \in Calls, InsertRecovery(c), call'[c] # Idle PROVE IInv'
<1>1. TypeOK
  BY DEF IInv
<1>2. /\ call[c].at = "checked" /\ outer["recover"] = NoAttempt
      /\ outer' = [outer EXCEPT !["recover"].state = "prepared"]
      /\ status' = "resume_executing" /\ Goto(c, "claim")
      /\ UNCHANGED <<signup, platform, ends>>
  BY <1>1 DEF InsertRecovery, TypeOK
<1>3. call[c].op = "recover" /\ outer["execute"] = NotExported
  BY <1>2 DEF IInv, Turns
<1>4. \A d \in Calls : ~Working(d)
  <2>1. ASSUME NEW d \in Calls, Working(d) PROVE FALSE
    <3>1. outer[call[d].op].state \in {"prepared", "write_claimed"} /\ call[d].op \in Ops
      BY <1>1, <2>1 DEF IInv, Turns, TypeOK
    <3>2. outer["execute"].state = "failed_no_retry" /\ outer["recover"].state = "none"
      BY <1>2, <1>3 DEF NotExported, NoAttempt
    <3> QED
      BY <3>1, <3>2 DEF Ops
  <2> QED
    BY <2>1
<1>5. Moves(c, "claim", "recover", call[c].scope, call[c].ok, call[c].why)
  BY <1>1, <1>2, <1>3, GotoMoves DEF Steps
<1>6. /\ call' \in [Calls -> CallType] /\ call'[c].at = "claim" /\ call'[c].op = "recover"
      /\ \A d \in Calls \ {c} : call'[d] = call[d] /\ call'[d].at \in {"idle", "checked"}
  BY <1>4, <1>5 DEF Moves, Working
<1>7. /\ outer' \in [Ops -> [state : OuterStates, why : Reasons]]
      /\ outer'["recover"].state = "prepared" /\ outer'["execute"] = NotExported
  BY <1>1, <1>2, <1>3 DEF TypeOK, Ops, OuterStates, Reasons
<1>8. TypeOK'
  BY <1>1, <1>2, <1>6, <1>7 DEF TypeOK, CallType, ends
<1>9. Turns'
  BY <1>6, <1>7 DEF IInv, Turns, Working
<1>10. Sent'
  <2>1. Claimed' = Claimed /\ Claimed = {} /\ Discounted
    BY <1>2, <1>3 DEF Claimed, IInv, Sent
  <2>2. outer'["execute"].state = "failed_no_retry"
    BY <1>7 DEF NotExported
  <2> QED
    BY <1>2, <1>6, <1>7, <2>1, <2>2, PlatformRests DEF IInv, Sent
<1>11. Registered'
  BY <1>6, <1>7 DEF Registered, Succeeds, CompletedIsRegistered, Ops, NotExported
<1> QED
  BY <1>8, <1>9, <1>10, <1>11 DEF IInv

(* Its call begins to push the discounts, or the sign-up. *)
LEMMA ClaimOuterMoves ==
  ASSUME TypeOK, NEW c \in Calls, ClaimOuter(c)
  PROVE  /\ Moves(c, IF call[c].op = "execute" THEN "discount" ELSE "signup",
                  call[c].op, call[c].scope, call[c].ok, call[c].why)
         /\ call[c].op = "execute" => Covers(c)'
<1>1. call \in [Calls -> CallType] /\ platform' = platform /\ platform.live \subseteq Items
  BY DEF ClaimOuter, TypeOK, CallType
<1>2. CASE call[c].op = "execute"
  <2>1. PICK fresh \in SUBSET Items :
          call' = [call EXCEPT ![c].at = "discount", ![c].edits = Items \ fresh, ![c].fresh = fresh]
    BY <1>2 DEF ClaimOuter
  <2> DEFINE x == [call[c] EXCEPT !.at = "discount", !.edits = Items \ fresh, !.fresh = fresh]
  <2>2. /\ call' = [call EXCEPT ![c] = x] /\ x \in CallType
        /\ x.at = "discount" /\ x.op = call[c].op /\ x.scope = call[c].scope
        /\ x.ok = call[c].ok /\ x.why = call[c].why
        /\ x.edits = Items \ fresh /\ x.fresh = fresh
    BY <1>1, <2>1 DEF CallType, Steps
  <2>3. call'[c] = x
    BY <1>1, <2>2
  <2>4. Covers(c)'
    BY <1>1, <2>2, <2>3 DEF Covers
  <2> QED
    BY <1>1, <1>2, <2>2, <2>4 DEF Moves
<1>3. CASE call[c].op = "recover"
  BY <1>3, GotoMoves DEF ClaimOuter, Steps
<1> QED
  BY <1>1, <1>2, <1>3 DEF CallType, Ops

(* The owner of an attempt claims the write. *)
LEMMA ClaimOuterStep == ASSUME IInv, NEW c \in Calls, ClaimOuter(c) PROVE IInv'
<1> DEFINE o == call[c].op
           at == IF o = "execute" THEN "discount" ELSE "signup"
<1>1. TypeOK
  BY DEF IInv
<1>2. /\ call[c].at = "claim" /\ Working(c) /\ o \in Ops
      /\ outer' = [outer EXCEPT ![o].state = "write_claimed"]
      /\ UNCHANGED <<status, signup, platform, ends>>
  BY <1>1 DEF ClaimOuter, Working, TypeOK
<1>3. Moves(c, at, o, call[c].scope, call[c].ok, call[c].why) /\ (o = "execute" => Covers(c)')
  BY <1>1, ClaimOuterMoves
<1>4. /\ call' \in [Calls -> CallType] /\ call'[c].at = at /\ call'[c].op = o
      /\ \A d \in Calls \ {c} : call'[d] = call[d] /\ call'[d].at \in {"idle", "checked"}
  BY <1>2, <1>3, Alone DEF Moves, IInv
<1>5. /\ outer' \in [Ops -> [state : OuterStates, why : Reasons]]
      /\ outer'[o].state = "write_claimed" /\ outer[o].state = "prepared"
      /\ \A p \in Ops \ {o} : outer'[p] = outer[p]
  <2>1. outer[o].state = "prepared"
    BY <1>2 DEF IInv, Turns
  <2> QED
    BY <1>1, <1>2, <2>1 DEF TypeOK, OuterStates
<1>6. /\ outer["execute"] # NotExported <=> o = "execute"
      /\ outer'["execute"] # NotExported <=> o = "execute"
      /\ o = "execute" => outer'["recover"] = NoAttempt /\ outer["recover"] = NoAttempt
  <2>1. CASE o = "execute"
    <3>1. outer["execute"] # NotExported /\ outer'["execute"] # NotExported
      BY <1>5, <2>1 DEF NotExported
    <3>2. outer["recover"] = NoAttempt /\ outer'["recover"] = outer["recover"]
      BY <1>5, <2>1, <3>1 DEF IInv, Turns, Ops
    <3> QED
      BY <2>1, <3>1, <3>2
  <2>2. CASE o = "recover"
    BY <1>2, <1>5, <2>2 DEF IInv, Turns, Ops
  <2> QED
    BY <1>2, <2>1, <2>2 DEF Ops
<1>7. TypeOK'
  BY <1>1, <1>2, <1>4, <1>5 DEF TypeOK, CallType, ends
<1>8. Turns'
  <2>1. Turns /\ at \in {"discount", "signup"} /\ (at = "discount" => o = "execute")
    BY DEF IInv
  <2>2. \A d \in Calls : Working(d)' <=> d = c
    BY <1>4, <2>1 DEF Working
  <2>3. /\ o = "recover" => outer["execute"] = NotExported
        /\ o = "recover" => outer'["execute"] = outer["execute"]
        /\ outer'["recover"] # NoAttempt => outer'["execute"] = NotExported
    BY <1>2, <1>5, <1>6, <2>1 DEF Turns, Ops
  <2>4. ASSUME NEW d \in Calls \ {c}, call[d].at # "idle", call[d].op = "recover"
        PROVE  outer'["execute"] = outer["execute"]
    BY <1>5, <1>6, <2>1, <2>3, <2>4 DEF Turns, Ops
  <2> HIDE DEF o, at
  <2>5. \A d \in Calls \ {c} :
          /\ call'[d].at = "checked" => call'[d].op = "recover"
          /\ call'[d].at # "idle" /\ call'[d].op = "recover" => outer'["execute"] = NotExported
    BY <1>4, <2>1, <2>4 DEF Turns
  <2> QED
    BY <1>4, <1>5, <2>1, <2>2, <2>3, <2>5 DEF Turns
<1>9. Sent'
  <2>1. Claimed' = Claimed /\ Claimed = {}
    BY <1>2 DEF Claimed, IInv, Sent
  <2>2. /\ o = "execute" => NoRows
        /\ o = "recover" => Discounted
    BY <1>5, <1>6 DEF IInv, Sent
  <2>3. o = "recover" => outer'["execute"] = outer["execute"]
    BY <1>5 DEF Ops
  <2>4. outer'["execute"].state \in {"none", "prepared"} => o = "recover"
    BY <1>2, <1>5 DEF Ops
  <2> QED
    BY <1>2, <1>3, <1>4, <1>6, <2>1, <2>2, <2>3, <2>4
       DEF IInv, Sent, SignupNeedsDiscount, NewRowsOnce, NoRows, Discounted, Ops
<1>10. Registered'
  BY <1>2, <1>4, <1>5, NoneCompleted DEF Registered, Succeeds, CompletedIsRegistered, Ops
<1> QED
  BY <1>7, <1>8, <1>9, <1>10 DEF IInv

(* The end of an operation: what it records is true. *)
LEMMA EndSteps == ASSUME IInv, NEW c \in Calls, Record(c) \/ RecordRaised(c) PROVE IInv'
<1> DEFINE o == call[c].op
<1>1. TypeOK
  BY DEF IInv
<1>2. /\ call[c].at \in {"record", "raised"} /\ Working(c) /\ o \in Ops
      /\ call' = [call EXCEPT ![c] = Idle] /\ UNCHANGED <<status, signup, platform, ends>>
  BY <1>1 DEF Record, RecordRaised, Working, TypeOK
<1>3. PICK x \in [state : {"completed", "failed_no_retry", "unknown_no_retry"}, why : Reasons] :
        /\ outer' = [outer EXCEPT ![o] = x]
        /\ x.state = "completed" => status \in Good
        /\ x = NotExported => Claimed = {} /\ Discounted
  <2>1. CASE Record(c) /\ call[c].ok
    <3>1. status \in Good
      <4>1. Succeeds(c)
        BY <2>1 DEF Record, Succeeds
      <4> QED
        BY <4>1 DEF IInv, Registered
    <3> DEFINE y == [state |-> "completed", why |-> call[c].why]
    <3>2. outer' = [outer EXCEPT ![o] = y] /\ y # NotExported
      BY <2>1 DEF Record, NotExported
    <3>3. y \in [state : {"completed", "failed_no_retry", "unknown_no_retry"}, why : Reasons]
      BY <1>1 DEF TypeOK
    <3> QED
      BY <3>1, <3>2, <3>3
  <2>2. CASE Record(c) /\ ~call[c].ok
    <3> DEFINE y == [state |-> "failed_no_retry", why |-> call[c].why]
    <3>1. outer' = [outer EXCEPT ![o] = y] /\ call[c].at = "record"
      BY <2>2 DEF Record
    <3>2. y = NotExported => call[c].why = "export"
      BY DEF NotExported
    <3>3. y = NotExported => Claimed = {} /\ Discounted
      BY <2>2, <3>1, <3>2 DEF IInv, Sent
    <3>4. /\ y \in [state : {"completed", "failed_no_retry", "unknown_no_retry"}, why : Reasons]
          /\ y.state # "completed"
      BY <1>1 DEF TypeOK
    <3> QED
      BY <3>1, <3>3, <3>4
  <2>3. CASE RecordRaised(c)
    <3> DEFINE y == [state |-> "unknown_no_retry", why |-> "exception"]
    <3>1. outer' = [outer EXCEPT ![o] = y] /\ y # NotExported
      BY <2>3 DEF RecordRaised, NotExported
    <3>2. /\ y \in [state : {"completed", "failed_no_retry", "unknown_no_retry"}, why : Reasons]
          /\ y.state # "completed"
      BY DEF Reasons
    <3> QED
      BY <3>1, <3>2
  <2> QED
    BY <2>1, <2>2, <2>3
<1>4. /\ call' \in [Calls -> CallType] /\ call'[c].at = "idle"
      /\ \A d \in Calls \ {c} : call'[d] = call[d] /\ call'[d].at \in {"idle", "checked"}
  <2>1. \A d \in Calls \ {c} : call[d].at \in {"idle", "checked"}
    BY <1>2, Alone DEF IInv
  <2>2. Idle \in CallType /\ Idle.at = "idle" /\ call \in [Calls -> CallType]
    BY <1>1, IdleFacts DEF TypeOK, CallType
  <2> QED
    BY <1>2, <2>1, <2>2
<1>5. /\ outer' \in [Ops -> [state : OuterStates, why : Reasons]] /\ outer'[o] = x
      /\ \A p \in Ops \ {o} : outer'[p] = outer[p]
      /\ outer[o].state = "write_claimed"
  <2>1. outer[o].state = "write_claimed"
    BY <1>2 DEF IInv, Turns
  <2> QED
    BY <1>1, <1>2, <1>3, <2>1 DEF TypeOK, OuterStates
<1>6. TypeOK'
  BY <1>1, <1>2, <1>4, <1>5 DEF TypeOK, CallType, ends
<1>7. CASE o = "execute"
  <2>1. /\ outer["execute"] # NotExported /\ outer["recover"] = NoAttempt
        /\ outer'["execute"] = x /\ outer'["recover"] = NoAttempt
    <3>1. outer["execute"] # NotExported
      BY <1>5, <1>7 DEF NotExported
    <3> QED
      BY <3>1, <1>5, <1>7 DEF IInv, Turns, Ops
  <2>2. \A d \in Calls : call'[d].at = "idle"
    BY <1>4, <2>1 DEF IInv, Turns
  <2>3. Turns'
    BY <2>1, <2>2 DEF Turns, Working
  <2>4. Sent'
    <3>1. Claimed' = Claimed
      BY <1>2 DEF Claimed
    <3> QED
      BY <1>2, <1>3, <2>1, <2>2, <3>1, PlatformRests DEF IInv, Sent
  <2>5. Registered'
    <3>1. outer'["recover"].state # "completed"
      BY <2>1 DEF NoAttempt
    <3>2. CompletedIsRegistered'
      BY <1>2, <1>3, <2>1, <3>1 DEF CompletedIsRegistered, Ops, Good
    <3> QED
      BY <2>2, <3>2 DEF Registered, Succeeds
  <2> QED
    BY <1>6, <2>3, <2>4, <2>5 DEF IInv
<1>8. CASE o = "recover"
  <2>1. outer["execute"] = NotExported /\ outer'["execute"] = NotExported /\ outer'["recover"] = x
    BY <1>2, <1>5, <1>8 DEF IInv, Turns, Ops
  <2>2. x # NoAttempt
    BY <1>3 DEF NoAttempt
  <2>3. Turns'
    BY <1>4, <2>1 DEF IInv, Turns, Working
  <2>4. Sent'
    <3>1. Claimed' = Claimed
      BY <1>2 DEF Claimed
    <3>2. outer'["execute"].state = "failed_no_retry"
      BY <2>1 DEF NotExported
    <3> QED
      BY <1>2, <1>4, <2>1, <2>2, <3>1, <3>2, PlatformRests DEF IInv, Sent
  <2>5. Registered'
    <3>1. outer'["execute"].state # "completed"
      BY <2>1 DEF NotExported
    <3>2. CompletedIsRegistered'
      BY <1>2, <1>3, <2>1, <3>1 DEF CompletedIsRegistered, Ops, Good
    <3>3. \A d \in Calls : ~Succeeds(d)'
      BY <1>4 DEF Succeeds
    <3> QED
      BY <3>2, <3>3 DEF Registered
  <2> QED
    BY <1>6, <2>3, <2>4, <2>5 DEF IInv
<1> QED
  BY <1>2, <1>7, <1>8 DEF Ops

(* Nothing but calls and notes of lost ones. *)
RowsRest == UNCHANGED <<status, outer, signup, platform>>

(* Calls that are cut off forget no row.                                   *)
LEMMA CutOff ==
  ASSUME IInv, RowsRest, call' \in [Calls -> CallType], lost' \in SUBSET Ops,
         crashes' \in 0..MaxCrashes,
         \A c \in Calls : call'[c] = call[c] \/ call'[c].at = "idle"
  PROVE  IInv'
<1>1. UNCHANGED <<status, outer, signup, platform>> /\ Claimed' = Claimed
  BY DEF RowsRest, Claimed
<1>2. TypeOK'
  BY <1>1 DEF IInv, TypeOK, CallType
<1>3. Turns'
  BY <1>1 DEF IInv, Turns, Working
<1>4. Sent'
  <2>1. Discounted' = Discounted /\ NoRows' = NoRows /\ SignupNeedsDiscount' /\ NewRowsOnce'
    BY <1>1 DEF IInv, Sent, Discounted, NoRows, SignupNeedsDiscount, NewRowsOnce
  <2>2. \A c \in Calls : call'[c].at = "discount" => (Covers(c) => Covers(c)')
    BY <1>1 DEF Covers
  <2> QED
    BY <1>1, <2>1, <2>2 DEF IInv, Sent
<1>5. Registered'
  BY <1>1 DEF IInv, Registered, Succeeds, CompletedIsRegistered
<1> QED
  BY <1>2, <1>3, <1>4, <1>5 DEF IInv

(* A restart cuts every call off, an exception that nothing handles one.   *)
LEMMA CutOffSteps == ASSUME IInv, Crash \/ \E c \in Calls : Escape(c) PROVE IInv'
<1>1. call \in [Calls -> CallType] /\ lost \in SUBSET Ops /\ crashes \in 0..MaxCrashes
      /\ \A c \in Calls : call[c].op \in Ops
  BY DEF IInv, TypeOK, CallType
<1>2. CASE Crash
  <2>1. RowsRest /\ crashes' \in 0..MaxCrashes /\ lost' \in SUBSET Ops
    BY <1>1, <1>2, CampaignAssumption DEF Crash, RowsRest, rows
  <2>2. call' \in [Calls -> CallType] /\ \A c \in Calls : call'[c].at = "idle"
    BY <1>2, IdleFacts DEF Crash
  <2> QED
    BY <2>1, <2>2, CutOff
<1>3. ASSUME NEW c \in Calls, Escape(c) PROVE IInv'
  <2>1. RowsRest /\ crashes' \in 0..MaxCrashes /\ lost' \in SUBSET Ops
    BY <1>1, <1>3 DEF Escape, RowsRest, rows
  <2>2. call' \in [Calls -> CallType] /\ \A d \in Calls : call'[d] = call[d] \/ call'[d].at = "idle"
    BY <1>1, <1>3, IdleFacts DEF Escape
  <2> QED
    BY <2>1, <2>2, CutOff
<1> QED
  BY <1>2, <1>3

(* At first nothing is claimed. *)
LEMMA InitHolds == Init => IInv
<1> SUFFICES ASSUME Init PROVE IInv
  OBVIOUS
<1>1. /\ \A c \in Calls : call[c] = Idle /\ call[c].at = "idle"
      /\ call \in [Calls -> CallType] /\ Claimed = {}
      /\ \A o \in Ops : outer[o] = NoAttempt /\ outer[o].state = "none"
  BY IdleFacts DEF Init, Claimed, NoAttempt
<1>2. TypeOK
  BY <1>1, CampaignAssumption DEF Init, TypeOK, CallType, NoAttempt, OuterStates, SignupStates, Reasons
<1>3. Turns
  BY <1>1 DEF Turns, Working, Ops
<1>4. Sent
  <2>1. outer["execute"] # NotExported
    BY <1>1 DEF Ops, NotExported, NoAttempt
  <2> QED
    BY <1>1, <2>1 DEF Init, Sent, SignupNeedsDiscount, NewRowsOnce, NoRows
<1>5. Registered
  BY <1>1 DEF Registered, Succeeds, CompletedIsRegistered
<1> QED
  BY <1>2, <1>3, <1>4, <1>5 DEF IInv

(* IInv is inductive. *)
LEMMA StepHolds == ASSUME IInv, [Next]_vars PROVE IInv'
<1>1. CASE UNCHANGED vars
  BY <1>1 DEF vars, rows, ends, IInv, TypeOK, Turns, Sent, Registered, Working, Claimed, Succeeds,
     SignupNeedsDiscount, NewRowsOnce, CompletedIsRegistered, Discounted, NoRows, Covers
<1>2. CASE Next
  <2>1. CASE Crash
    BY <2>1, CutOffSteps
  <2>2. ASSUME NEW c \in Calls,
               \/ Execute(c) \/ Recover(c) \/ InsertRecovery(c) \/ ClaimOuter(c)
               \/ EditActivity(c) \/ NewBatch(c) \/ CommitDiscount(c) \/ EndBeforeAttempt(c)
               \/ \E m \in Manifests : EnsureAttempt(c, m)
               \/ CheckIdentity(c) \/ StopBlocked(c) \/ ClaimWrite(c) \/ UploadSignup(c)
               \/ RecordTerminal(c) \/ Refuse(c) \/ StopRefused(c) \/ PushPlan(c) \/ Complete(c)
               \/ Close(c) \/ Record(c) \/ Raise(c) \/ RecordRaised(c) \/ Escape(c)
        PROVE  IInv'
    BY <2>2, ExecuteStep, LookSteps, InsertStep, ClaimOuterStep, PushSteps, UploadSignupStep,
       StatusSteps, AttemptSteps, ClaimStep, EndSteps, CutOffSteps
  <2> QED
    BY <1>2, <2>1, <2>2 DEF Next
<1> QED
  BY <1>1, <1>2

(* Every reachable state satisfies the invariant. *)
THEOREM InvariantHolds == Spec => []IInv
<1> QED
  BY InitHolds, StepHolds, PTL DEF Spec

-----------------------------------------------------------------------------
(* What follows *)

(* The variables keep their types. *)
THEOREM TypeCorrect == Spec => []TypeOK
<1>1. IInv => TypeOK
  BY DEF IInv
<1> QED
  BY <1>1, InvariantHolds, PTL

(* SignupNeedsDiscount: no sign-up reaches the platform before every       *)
(* discount of the plan is in force, for any number of items, overlapping  *)
(* calls and restarts, and however many workbooks the discounts took.      *)
THEOREM DiscountComesFirst == Spec => []SignupNeedsDiscount
<1>1. IInv => SignupNeedsDiscount
  BY DEF IInv, Sent
<1> QED
  BY <1>1, InvariantHolds, PTL

(* NewRowsOnce: no item is entered by two new batches, though a conflict   *)
(* makes push_discount begin again.                                        *)
THEOREM RowsEnteredOnce == Spec => []NewRowsOnce
<1>1. IInv => NewRowsOnce
  BY DEF IInv, Sent
<1> QED
  BY <1>1, InvariantHolds, PTL

(* CompletedIsRegistered: an attempt that says completed is never taken    *)
(* back by a later status of the plan.                                     *)
THEOREM CompletedIsTrue == Spec => []CompletedIsRegistered
<1>1. IInv => CompletedIsRegistered
  BY DEF IInv, Registered
<1> QED
  BY <1>1, InvariantHolds, PTL

(* The claim of the sign-up is never given up.                             *)
LEMMA ClaimStays == ASSUME IInv, [Next]_vars PROVE Claimed \subseteq Claimed'
<1>1. signup \in [Manifests -> SignupStates]
  BY DEF IInv, TypeOK
<1>2. CASE signup' = signup
  BY <1>2 DEF Claimed
<1>3. ASSUME NEW m \in Manifests, NEW x,
             signup' = [signup EXCEPT ![m] = x],
             m \in Claimed => x \in {"write_claimed", "platform_terminal", "unknown_no_retry",
                                     "failed_no_retry", "completed"}
      PROVE  Claimed \subseteq Claimed'
  BY <1>1, <1>3 DEF Claimed
<1>4. ASSUME NEW c \in Calls, \E m \in Manifests : EnsureAttempt(c, m) PROVE Claimed \subseteq Claimed'
  BY <1>2, <1>3, <1>4 DEF EnsureAttempt, Claimed
<1>5. ASSUME NEW c \in Calls, CheckIdentity(c) \/ ClaimWrite(c) PROVE Claimed \subseteq Claimed'
  <2>1. call[c].scope \in Manifests
    BY <1>5 DEF CheckIdentity, ClaimWrite, IInv, Sent
  <2> QED
    BY <1>2, <1>3, <1>5, <2>1 DEF CheckIdentity, ClaimWrite
<1>6. ASSUME NEW c \in Calls, RecordTerminal(c) \/ Refuse(c) \/ Complete(c)
      PROVE  Claimed \subseteq Claimed'
  <2>1. call[c].scope \in Manifests
    BY <1>6 DEF RecordTerminal, Refuse, Complete, IInv, Sent, Claimed
  <2> QED
    BY <1>3, <1>6, <2>1 DEF RecordTerminal, Refuse, Complete
<1>7. ASSUME NEW c \in Calls,
             \/ Execute(c) \/ Recover(c) \/ InsertRecovery(c) \/ ClaimOuter(c) \/ EditActivity(c)
             \/ NewBatch(c) \/ CommitDiscount(c) \/ EndBeforeAttempt(c) \/ StopBlocked(c)
             \/ UploadSignup(c) \/ StopRefused(c) \/ PushPlan(c) \/ Close(c) \/ Record(c)
             \/ Raise(c) \/ RecordRaised(c) \/ Escape(c)
      PROVE  signup' = signup
  BY <1>7 DEF Execute, Recover, InsertRecovery, ClaimOuter, EditActivity, NewBatch, CommitDiscount,
     EndBeforeAttempt, StopBlocked, UploadSignup, StopRefused, PushPlan, Close, Record, Raise,
     RecordRaised, Escape, rows
<1>8. CASE Crash \/ UNCHANGED vars
  BY <1>2, <1>8 DEF Crash, vars, rows
<1> QED
  BY <1>2, <1>4, <1>5, <1>6, <1>7, <1>8 DEF Next

(* The platform receives a sign-up only while it is claimed and for the    *)
(* first time, and then nothing is claimed or given up.                    *)
LEMMA SignupOnce ==
  ASSUME IInv, [Next]_vars
  PROVE  \/ platform'.signups = platform.signups
         \/ /\ Claimed # {} /\ signup' = signup
            /\ platform.signups = 0 /\ platform'.signups = 1
<1>1. platform \in [live : SUBSET Items, entered : [Items -> Nat], signups : Nat] /\ TypeOK
  BY DEF IInv, TypeOK
<1>2. ASSUME NEW c \in Calls, UploadSignup(c), platform' # platform
      PROVE  /\ Claimed # {} /\ signup' = signup
             /\ platform.signups = 0 /\ platform'.signups = 1
  <2>1. /\ signup' = signup /\ call[c].at = "upload"
        /\ platform' = [platform EXCEPT !.signups = platform.signups + 1]
    BY <1>2 DEF UploadSignup, rows
  <2>2. call[c].scope \in Claimed /\ platform.signups = 0
    BY <2>1 DEF IInv, Sent
  <2> QED
    BY <1>1, <2>1, <2>2
<1>3. ASSUME NEW c \in Calls, EditActivity(c) PROVE platform'.signups = platform.signups
  BY <1>1, <1>3 DEF EditActivity
<1>4. ASSUME NEW c \in Calls, NewBatch(c) PROVE platform'.signups = platform.signups
  <2>1. call[c].fresh \in SUBSET Items
    BY <1>1 DEF TypeOK
  <2>2. CASE platform' = platform
    BY <2>2
  <2>3. CASE \E some \in SUBSET Items : Enter(some)
    BY <1>1, <2>3, EnterFacts
  <2> QED
    BY <1>4, <2>1, <2>2, <2>3 DEF NewBatch
<1>5. CASE UNCHANGED vars \/ Crash
  BY <1>5 DEF vars, Crash
<1>6. ASSUME NEW c \in Calls,
             \/ Execute(c) \/ Recover(c) \/ InsertRecovery(c) \/ ClaimOuter(c)
             \/ CommitDiscount(c) \/ EndBeforeAttempt(c)
             \/ \E m \in Manifests : EnsureAttempt(c, m)
             \/ CheckIdentity(c) \/ StopBlocked(c) \/ ClaimWrite(c) \/ RecordTerminal(c)
             \/ Refuse(c) \/ StopRefused(c) \/ PushPlan(c) \/ Complete(c)
             \/ Close(c) \/ Record(c) \/ Raise(c) \/ RecordRaised(c) \/ Escape(c)
      PROVE  platform' = platform
  BY <1>6 DEF Execute, Recover, InsertRecovery, ClaimOuter, CommitDiscount, EndBeforeAttempt,
     EnsureAttempt, CheckIdentity, StopBlocked, ClaimWrite, RecordTerminal, Refuse, StopRefused,
     PushPlan, Complete, Close, Record, Raise, RecordRaised, Escape
<1> QED
  BY <1>2, <1>3, <1>4, <1>5, <1>6 DEF Next

(* Every step claims the sign-up, makes it once, or leaves it alone. *)
LEMMA WriteStep == ASSUME IInv, [Next]_vars PROVE [Write!Next]_(Write!vars)
<1>1. Claimed \subseteq Claimed' /\ (signup' = signup => Claimed' = Claimed)
  BY ClaimStays DEF Claimed
<1>2. Write!Next
  BY <1>1, SignupOnce DEF Write!Next, Write!Keep, Write!Claim, Write!Act
<1> QED
  BY <1>2

(* SignupIsOneShot: CampaignWrite implements OneShot for the sign-up of    *)
(* the plan, through execution, recovery, restarts and exceptions.         *)
THEOREM SignupRefinesOneShot == Spec => SignupIsOneShot
<1>1. Init => Write!Init
  BY DEF Init, Write!Init, Claimed
<1>2. IInv /\ [Next]_vars => [Write!Next]_(Write!vars)
  BY WriteStep
<1> QED
  BY <1>1, <1>2, InvariantHolds, PTL DEF Spec, SignupIsOneShot, Write!Spec

-----------------------------------------------------------------------------
(* Attempts that nobody ends *)

(* An attempt of an operation that blocks every later one. *)
Open(o) == outer[o].state \in {"prepared", "write_claimed"}

InHand(o) == \E c \in Calls : Working(c) /\ call[c].op = o

(* An attempt is open while a call works on it, and for ever after the     *)
(* call that worked on it was cut off: no later call takes it up.          *)
OpenIsKnown ==
    \A o \in Ops : /\ Open(o) <=> InHand(o) \/ o \in lost
                   /\ ~(InHand(o) /\ o \in lost)

(* A call at work, and the attempts of the operations at rest. *)
WorksOn(c) ==
    /\ Working(c) /\ Working(c)' /\ call'[c].op = call[c].op
    /\ \A d \in Calls \ {c} : call'[d] = call[d]
    /\ outer' = outer /\ lost' = lost

(* Between the claim and the record of an operation its call stays at work.*)
LEMMA WorkGoesOn ==
  ASSUME TypeOK, NEW c \in Calls,
         \/ EditActivity(c) \/ NewBatch(c) \/ CommitDiscount(c) \/ EndBeforeAttempt(c)
         \/ \E m \in Manifests : EnsureAttempt(c, m)
         \/ CheckIdentity(c) \/ StopBlocked(c) \/ ClaimWrite(c) \/ UploadSignup(c)
         \/ RecordTerminal(c) \/ Refuse(c) \/ StopRefused(c) \/ PushPlan(c) \/ Complete(c)
         \/ Close(c) \/ Raise(c)
  PROVE  WorksOn(c)
<1>1. call \in [Calls -> CallType]
  BY DEF TypeOK, CallType
<1>2. Working(c) /\ outer' = outer /\ lost' = lost
  BY DEF EditActivity, NewBatch, CommitDiscount, EndBeforeAttempt, EnsureAttempt, CheckIdentity,
     StopBlocked, ClaimWrite, UploadSignup, RecordTerminal, Refuse, StopRefused, PushPlan, Complete,
     Close, Raise, Working, rows, ends
<1>3. ASSUME NEW at \in Steps \ {"idle", "checked"}, Goto(c, at) PROVE WorksOn(c)
  BY <1>1, <1>2, <1>3 DEF Goto, WorksOn, Working, CallType
<1>4. ASSUME NEW good \in BOOLEAN, NEW step \in Reasons, Return(c, good, step) PROVE WorksOn(c)
  BY <1>1, <1>2, <1>4 DEF Return, WorksOn, Working, CallType
<1>5. CASE \E m \in Manifests : EnsureAttempt(c, m)
  <2>1. PICK m \in Manifests : call' = [call EXCEPT ![c].at = "identity", ![c].scope = m]
    BY <1>5 DEF EnsureAttempt
  <2>2. /\ call'[c].at = "identity" /\ call'[c].op = call[c].op
        /\ \A d \in Calls \ {c} : call'[d] = call[d]
    BY <1>1, <2>1 DEF CallType
  <2> QED
    BY <1>2, <2>2 DEF WorksOn, Working
<1>6. ASSUME call[c].at = "discount", NEW i, call' = [call EXCEPT ![c].edits = @ \ {i}]
      PROVE  WorksOn(c)
  <2>1. /\ call'[c].at = "discount" /\ call'[c].op = call[c].op
        /\ \A d \in Calls \ {c} : call'[d] = call[d]
    BY <1>1, <1>6 DEF CallType
  <2> QED
    BY <1>2, <2>1 DEF WorksOn, Working
<1>7. ASSUME call[c].at = "discount", NEW found, PushAgain(c, found) PROVE WorksOn(c)
  <2>1. /\ call'[c].at = "discount" /\ call'[c].op = call[c].op
        /\ \A d \in Calls \ {c} : call'[d] = call[d]
    BY <1>1, <1>7 DEF PushAgain, CallType
  <2> QED
    BY <1>2, <2>1 DEF WorksOn, Working
<1>8. CASE EditActivity(c)
  BY <1>8, <1>4, <1>6 DEF EditActivity, Reasons
<1>9. CASE NewBatch(c)
  BY <1>9, <1>3, <1>4, <1>7 DEF NewBatch, Steps, Reasons
<1>10. CASE CommitDiscount(c) \/ UploadSignup(c) \/ RecordTerminal(c)
  BY <1>10, <1>3 DEF CommitDiscount, UploadSignup, RecordTerminal, Steps
<1>11. CASE EndBeforeAttempt(c)
  BY <1>11, <1>4 DEF EndBeforeAttempt, Stop, Reasons
<1>12. CASE CheckIdentity(c) \/ StopBlocked(c)
  BY <1>12, <1>3, <1>4 DEF CheckIdentity, StopBlocked, Stop, Steps, Reasons
<1>13. CASE ClaimWrite(c)
  BY <1>13, <1>3, <1>4 DEF ClaimWrite, Stop, Steps, Reasons
<1>14. CASE Refuse(c) \/ StopRefused(c) \/ PushPlan(c) \/ Complete(c)
  BY <1>14, <1>3, <1>4 DEF Refuse, StopRefused, PushPlan, Complete, Stop, Steps, Reasons
<1>15. CASE Close(c) \/ Raise(c)
  BY <1>15, <1>3 DEF Close, Raise, Steps
<1> QED
  BY <1>5, <1>8, <1>9, <1>10, <1>11, <1>12, <1>13, <1>14, <1>15

(* A call takes an attempt, or goes on with the one it has. *)
LEMMA TakesStep ==
  ASSUME OpenIsKnown, NEW c \in Calls, NEW o \in Ops, Working(c)', call'[c].op = o, lost' = lost,
         \A d \in Calls \ {c} : call'[d] = call[d],
         \A p \in Ops \ {o} : outer'[p] = outer[p],
         Working(c) => call[c].op = o, Open(o)', o \notin lost
  PROVE  OpenIsKnown'
<1>1. InHand(o)'
  BY DEF InHand
<1>2. ASSUME NEW p \in Ops \ {o} PROVE (InHand(p)' <=> InHand(p)) /\ (Open(p)' <=> Open(p))
  BY <1>2 DEF InHand, Working, Open
<1> QED
  BY <1>1, <1>2 DEF OpenIsKnown

(* No step leaves an open attempt behind without a note, and none takes up *)
(* an attempt that was lost.                                               *)
LEMMA KnownStep == ASSUME IInv, OpenIsKnown, [Next]_vars PROVE OpenIsKnown'
<1>1. TypeOK /\ call \in [Calls -> CallType] /\ Idle.at = "idle"
  BY IdleFacts DEF IInv, TypeOK, CallType
<1>2. CASE UNCHANGED vars
  BY <1>2 DEF vars, rows, ends, OpenIsKnown, Open, InHand, Working
<1>3. CASE Crash
  <2>1. /\ \A o \in Ops : ~InHand(o)'
        /\ \A o \in Ops : Open(o)' <=> Open(o)
        /\ \A o \in Ops : o \in lost' <=> o \in lost \/ InHand(o)
    BY <1>1, <1>3 DEF Crash, InHand, Working, Open, rows
  <2> QED
    BY <2>1 DEF OpenIsKnown
<1>4. ASSUME NEW c \in Calls, Escape(c) PROVE OpenIsKnown'
  <2> DEFINE o == call[c].op
  <2>1. /\ Working(c) /\ o \in Ops /\ call'[c].at = "idle" /\ lost' = lost \cup {o}
        /\ \A d \in Calls \ {c} : call'[d] = call[d] /\ ~Working(d)
        /\ outer' = outer
    BY <1>1, <1>4, Alone DEF Escape, IInv, Working, CallType, rows
  <2>2. InHand(o) /\ \A p \in Ops : ~InHand(p)' /\ (InHand(p) => p = o)
    BY <2>1 DEF InHand, Working
  <2> QED
    BY <2>1, <2>2 DEF OpenIsKnown, Open
<1>5. ASSUME NEW c \in Calls, WorksOn(c) PROVE OpenIsKnown'
  <2>1. \A o \in Ops : (InHand(o)' <=> InHand(o)) /\ (Open(o)' <=> Open(o))
    BY <1>5 DEF WorksOn, InHand, Working, Open
  <2> QED
    BY <1>5, <2>1 DEF WorksOn, OpenIsKnown
<1>6. ASSUME NEW c \in Calls, Execute(c) PROVE OpenIsKnown'
  <2> DEFINE x == [Idle EXCEPT !.at = "claim", !.op = "execute"]
  <2>1. x.at = "claim" /\ x.op = "execute"
    BY IdleFacts DEF Steps, Ops
  <2>2. call'[c] = x /\ ~Working(c) /\ \A d \in Calls \ {c} : call'[d] = call[d]
    BY <1>1, <1>6 DEF Execute, Working
  <2>3. lost' = lost /\ \A p \in Ops \ {"execute"} : outer'[p] = outer[p]
    BY <1>1, <1>6 DEF Execute, TypeOK, ends
  <2>4. Open("execute")' /\ ~Open("execute")
    BY <1>1, <1>6 DEF Execute, TypeOK, Open, Ops, NoAttempt
  <2>5. "execute" \notin lost
    BY <2>4 DEF OpenIsKnown, Ops
  <2> QED
    BY <2>1, <2>2, <2>3, <2>4, <2>5, TakesStep DEF Working, Ops
<1>7. ASSUME NEW c \in Calls, Recover(c) \/ (InsertRecovery(c) /\ call'[c] = Idle) PROVE OpenIsKnown'
  <2>1. PICK x : call' = [call EXCEPT ![c] = x] /\ outer' = outer
    <3>1. CASE Recover(c)
      BY <3>1 DEF Recover, rows
    <3>2. CASE InsertRecovery(c) /\ call'[c] = Idle
      <4>1. call' = [call EXCEPT ![c].at = "claim"] => call'[c].at = "claim"
        BY <1>1
      <4>2. ~Goto(c, "claim")
        BY <1>1, <3>2, <4>1 DEF Goto
      <4> QED
        BY <3>2, <4>2 DEF InsertRecovery
    <3> QED
      BY <1>7, <3>1, <3>2
  <2>2. ~Working(c) /\ ~Working(c)' /\ lost' = lost
    <3>1. CASE Recover(c)
      BY <1>1, <3>1, IdleFacts DEF Recover, Working, ends, Steps, Ops
    <3>2. CASE InsertRecovery(c) /\ call'[c] = Idle
      BY <1>1, <3>2 DEF InsertRecovery, Working, ends
    <3> QED
      BY <1>7, <3>1, <3>2
  <2>3. \A d \in Calls \ {c} : call'[d] = call[d]
    BY <1>1, <2>1
  <2>4. \A o \in Ops : (InHand(o)' <=> InHand(o)) /\ (Open(o)' <=> Open(o))
    BY <2>1, <2>2, <2>3 DEF InHand, Working, Open
  <2> QED
    BY <2>2, <2>4 DEF OpenIsKnown
<1>8. ASSUME NEW c \in Calls, InsertRecovery(c), call'[c] # Idle PROVE OpenIsKnown'
  <2>1. /\ call[c].at = "checked" /\ Goto(c, "claim") /\ lost' = lost
        /\ outer["recover"] = NoAttempt
        /\ outer' = [outer EXCEPT !["recover"].state = "prepared"]
    BY <1>1, <1>8 DEF InsertRecovery, ends
  <2>2. call[c].op = "recover" /\ ~Working(c)
    BY <2>1 DEF IInv, Turns, Working
  <2>3. call'[c].at = "claim" /\ call'[c].op = "recover" /\ \A d \in Calls \ {c} : call'[d] = call[d]
    BY <1>1, <2>1, <2>2, GotoMoves DEF Moves, Steps
  <2>4. \A p \in Ops \ {"recover"} : outer'[p] = outer[p]
    BY <1>1, <2>1 DEF TypeOK
  <2>5. Open("recover")' /\ ~Open("recover")
    BY <1>1, <2>1 DEF TypeOK, Open, Ops, NoAttempt
  <2>6. "recover" \notin lost
    BY <2>5 DEF OpenIsKnown, Ops
  <2> QED
    BY <2>1, <2>2, <2>3, <2>4, <2>5, <2>6, TakesStep DEF Working, Ops
<1>9. ASSUME NEW c \in Calls, ClaimOuter(c) PROVE OpenIsKnown'
  <2> PICK o \in Ops : o = call[c].op
    BY <1>1 DEF CallType
  <2> DEFINE at == IF o = "execute" THEN "discount" ELSE "signup"
  <2>1. /\ call[c].at = "claim" /\ lost' = lost /\ o \in Ops
        /\ outer' = [outer EXCEPT ![o].state = "write_claimed"]
    BY <1>1, <1>9 DEF ClaimOuter, TypeOK, ends
  <2>2. call'[c].at = at /\ call'[c].op = o /\ \A d \in Calls \ {c} : call'[d] = call[d]
    BY <1>1, <1>9, ClaimOuterMoves DEF Moves
  <2>3. (\A p \in Ops \ {o} : outer'[p] = outer[p]) /\ Open(o)'
    <3>1. outer \in [Ops -> [state : OuterStates, why : Reasons]]
      BY <1>1 DEF TypeOK
    <3>2. outer'[o].state = "write_claimed" /\ \A p \in Ops \ {o} : outer'[p] = outer[p]
      BY <2>1, <3>1
    <3> QED
      BY <3>2 DEF Open
  <2>4. o \notin lost
    BY <2>1 DEF OpenIsKnown, InHand, Working
  <2> QED
    BY <2>1, <2>2, <2>3, <2>4, TakesStep DEF Working
<1>10. ASSUME NEW c \in Calls, Record(c) \/ RecordRaised(c) PROVE OpenIsKnown'
  <2> PICK o \in Ops : o = call[c].op
    BY <1>1 DEF CallType
  <2>1. PICK x : outer' = [outer EXCEPT ![o] = x] /\ x.state \notin {"prepared", "write_claimed"}
    BY <1>10 DEF Record, RecordRaised
  <2>2. o \in Ops /\ outer'[o] = x /\ \A p \in Ops \ {o} : outer'[p] = outer[p]
    BY <1>1, <2>1 DEF TypeOK
  <2>3. /\ Working(c) /\ lost' = lost /\ call'[c].at = "idle"
        /\ \A d \in Calls \ {c} : call'[d] = call[d]
    BY <1>1, <1>10 DEF Record, RecordRaised, Working, ends
  <2>4. \A d \in Calls \ {c} : ~Working(d)
    BY <2>3, Alone DEF IInv, Working
  <2>5. InHand(o) /\ \A p \in Ops : ~InHand(p)' /\ (InHand(p) => p = o)
    BY <2>2, <2>3, <2>4 DEF InHand, Working
  <2>6. ~Open(o)' /\ \A p \in Ops \ {o} : (Open(p)' <=> Open(p))
    BY <2>1, <2>2 DEF Open
  <2> QED
    BY <2>2, <2>3, <2>5, <2>6 DEF OpenIsKnown
<1>11. ASSUME NEW c \in Calls,
              \/ EditActivity(c) \/ NewBatch(c) \/ CommitDiscount(c) \/ EndBeforeAttempt(c)
              \/ \E m \in Manifests : EnsureAttempt(c, m)
              \/ CheckIdentity(c) \/ StopBlocked(c) \/ ClaimWrite(c) \/ UploadSignup(c)
              \/ RecordTerminal(c) \/ Refuse(c) \/ StopRefused(c) \/ PushPlan(c) \/ Complete(c)
              \/ Close(c) \/ Raise(c)
       PROVE  OpenIsKnown'
  BY <1>1, <1>5, <1>11, WorkGoesOn
<1> QED
  BY <1>2, <1>3, <1>4, <1>6, <1>7, <1>8, <1>9, <1>10, <1>11 DEF Next

(* OpenIsKnown: an attempt that blocks its plan is the work of a call that *)
(* is going on, or of one that a restart or an exception outside its       *)
(* handlers has cut off; such an attempt stays open, and no later call     *)
(* works on it, for any number of calls.                                   *)
THEOREM OpenAttemptsAreKnown == Spec => []OpenIsKnown
<1>1. Init => OpenIsKnown
  BY DEF Idle, Init, OpenIsKnown, Open, InHand, Working, NoAttempt
<1> QED
  BY <1>1, InvariantHolds, KnownStep, PTL DEF Spec

=============================================================================
