--------------------------- MODULE CampaignWrite ---------------------------
(***************************************************************************)
(* The registration of one campaign plan on the shop platform: the service *)
(* that executes plan 8 (first the discounts, then the sign-up) and the    *)
(* one that recovers its sign-up, both through push_signup and the attempt *)
(* rows of campaign_execution_service.                                     *)
(*                                                                         *)
(* Calls are API requests that overlap and that a restart ends.  A         *)
(* workbook that reaches the platform is a write whose answer may get      *)
(* lost; every attempt is committed as claimed before its workbook leaves. *)
(* The discounts are several workbooks: one for each item (and activity)   *)
(* that is in an activity already, and one new batch for all the others.   *)
(***************************************************************************)
EXTENDS Integers

CONSTANTS
    Calls,
    Items,          \* with a discount in the plan
    Manifests,      \* scope_sha256 of the rows of a sign-up
    Pending,        \* the one manifest that the recovery may send
    MaxCrashes,     \* bound: restarts of the process
    None

ASSUME CampaignAssumption ==
    Pending \in Manifests /\ None \notin Manifests /\ MaxCrashes \in Nat

VARIABLES
    status,     \* campaign_plans.status
    outer,      \* attempt rows of the two operations: state, and the step that failed
    signup,     \* attempt rows of operation "signup", by manifest
    call,
    platform,   \* discounts in force, rows entered by new batches, sign-ups (external)
    lost,       \* operations whose call was cut off before it ended the attempt
    crashes

rows == <<status, outer, signup>>
ends == <<lost, crashes>>
vars == <<rows, call, platform, ends>>

Ops == {"execute", "recover"}

Idle == [at |-> "idle", op |-> "execute", scope |-> None, ok |-> FALSE, why |-> "none",
         edits |-> {}, fresh |-> {}, retried |-> FALSE]

NoAttempt == [state |-> "none", why |-> "none"]

Claimed == {m \in Manifests : signup[m] \notin {"none", "prepared", "retryable_prewrite", "blocked_prewrite"}}

Init ==
    /\ status = "alarmed"
    /\ outer = [o \in Ops |-> NoAttempt]
    /\ signup = [m \in Manifests |-> "none"]
    /\ call = [c \in Calls |-> Idle]
    /\ platform = [live |-> {}, entered |-> [i \in Items |-> 0], signups |-> 0]
    /\ lost = {} /\ crashes = 0

Goto(c, step) == call' = [call EXCEPT ![c].at = step]

(* Back in the service that called push_signup or push_discount. *)
Return(c, good, step) ==
    call' = [call EXCEPT ![c].at = "close", ![c].ok = good, ![c].why = step]

-----------------------------------------------------------------------------
(* The two operations claim their own attempt *)

(* execute_plan8, under the row lock of the plan until the insert commits. *)
Execute(c) ==
    /\ call[c] = Idle
    /\ outer["execute"] = NoAttempt /\ Claimed = {} /\ status = "alarmed"
    /\ outer' = [outer EXCEPT !["execute"] = [state |-> "prepared", why |-> "none"]]
    /\ call' = [call EXCEPT ![c] = [Idle EXCEPT !.at = "claim", !.op = "execute"]]
    /\ UNCHANGED <<status, signup, platform, ends>>

(* Mutant: a sign-up that the platform refused may be recovered as well. *)
MayRecoverMutant ==
    /\ status = "alarmed" /\ outer["recover"] = NoAttempt
    /\ outer["execute"].state = "failed_no_retry" /\ outer["execute"].why \in {"export", "signup"}

(* Only a sign-up that stopped while it read the platform is recovered. *)
MayRecover ==
    /\ status = "alarmed" /\ outer["recover"] = NoAttempt
    /\ outer["execute"] = [state |-> "failed_no_retry", why |-> "export"]

(* recover_plan8_signup reads the platform, checks again and asks for an   *)
(* official export; the insert relies on the unique key of the attempts.   *)
Recover(c) ==
    /\ call[c] = Idle /\ MayRecover
    /\ call' = [call EXCEPT ![c] = [Idle EXCEPT !.at = "checked", !.op = "recover"]]
    /\ UNCHANGED <<rows, platform, ends>>

InsertRecovery(c) ==
    /\ call[c].at = "checked"
    /\ \/ /\ outer["recover"] = NoAttempt /\ signup[Pending] = "none"
          /\ outer' = [outer EXCEPT !["recover"].state = "prepared"]
          /\ status' = "resume_executing"
          /\ Goto(c, "claim")
       \/ /\ call' = [call EXCEPT ![c] = Idle]
          /\ UNCHANGED <<outer, status>>
    /\ UNCHANGED <<signup, platform, ends>>

(* The rows of the plan say which items are edited in their activities. *)
ClaimOuter(c) ==
    /\ call[c].at = "claim"
    /\ outer' = [outer EXCEPT ![call[c].op].state = "write_claimed"]
    /\ \/ /\ call[c].op = "execute"
          /\ \E fresh \in SUBSET Items :
               call' = [call EXCEPT ![c].at = "discount", ![c].edits = Items \ fresh, ![c].fresh = fresh]
       \/ call[c].op = "recover" /\ Goto(c, "signup")
    /\ UNCHANGED <<status, signup, platform, ends>>

-----------------------------------------------------------------------------
(* push_discount *)

(* Mutant: an edit without a final state counts as done. *)
EditActivityMutant(c) ==
    /\ call[c].at = "discount"
    /\ \E i \in call[c].edits :
         \/ /\ platform' = [platform EXCEPT !.live = @ \cup {i}] \/ UNCHANGED platform
            /\ call' = [call EXCEPT ![c].edits = @ \ {i}]
         \/ Return(c, FALSE, "discount") /\ UNCHANGED platform
    /\ UNCHANGED <<rows, ends>>

(* One workbook for an item of an existing activity: it arrives and its    *)
(* final import is proved, or the push ends here, arrived or not.          *)
EditActivity(c) ==
    /\ call[c].at = "discount"
    /\ \E i \in call[c].edits :
         \/ /\ platform' = [platform EXCEPT !.live = @ \cup {i}]
            /\ call' = [call EXCEPT ![c].edits = @ \ {i}]
         \/ /\ platform' = [platform EXCEPT !.live = @ \cup {i}] \/ UNCHANGED platform
            /\ Return(c, FALSE, "discount")
    /\ UNCHANGED <<rows, ends>>

(* The platform enters these items of a new batch. *)
Enter(some) ==
    platform' = [platform EXCEPT !.live = @ \cup some,
                                 !.entered = [i \in Items |-> IF i \in some THEN @[i] + 1 ELSE @[i]]]

(* push_discount once more: items found in older activities are edited     *)
(* there, and so is once more every item that was edited before.           *)
PushAgain(c, found) ==
    call' = [call EXCEPT ![c].edits = (Items \ call[c].fresh) \cup found,
                         ![c].fresh = @ \ found,
                         ![c].retried = TRUE]

(* Mutant: also after a part of the batch was entered. *)
NewBatchMutant(c) ==
    LET fresh == call[c].fresh
    IN  /\ call[c].at = "discount" /\ call[c].edits = {}
        /\ \/ Enter(fresh) /\ Goto(c, "discounted")
           \/ /\ fresh # {}
              /\ \E some \in SUBSET fresh :
                   /\ Enter(some)
                   /\ \/ Return(c, FALSE, "discount")
                      \/ ~call[c].retried /\ \E found \in SUBSET (fresh \ some) \ {{}} : PushAgain(c, found)
        /\ UNCHANGED <<rows, ends>>

(* The batch of the other items, if there are any, is entered and proved;  *)
(* or it is entered in part or without a proof; or nothing is entered and  *)
(* the platform names items that are in older activities: a first time     *)
(* they are bound to these and everything is pushed again.                 *)
NewBatch(c) ==
    LET fresh == call[c].fresh
    IN  /\ call[c].at = "discount" /\ call[c].edits = {}
        /\ \/ Enter(fresh) /\ Goto(c, "discounted")
           \/ /\ fresh # {} /\ Return(c, FALSE, "discount")
              /\ \E some \in SUBSET fresh : Enter(some)
           \/ /\ ~call[c].retried /\ UNCHANGED platform
              /\ \E found \in SUBSET fresh \ {{}} : PushAgain(c, found)
        /\ UNCHANGED <<rows, ends>>

(* Mutant: a status that nobody else knows. *)
CommitDiscountMutant(c) ==
    /\ call[c].at = "discounted"
    /\ status' = "discounted"
    /\ Goto(c, "signup")
    /\ UNCHANGED <<outer, signup, platform, ends>>

CommitDiscount(c) ==
    /\ call[c].at = "discounted"
    /\ status' = "discount_pushed"
    /\ Goto(c, "signup")
    /\ UNCHANGED <<outer, signup, platform, ends>>

-----------------------------------------------------------------------------
(* push_signup *)

(* _stop_signup *)
Stop(c, step) == status' = "alarmed" /\ Return(c, FALSE, step)

(* Everything that can end the sign-up before it has an attempt: the       *)
(* export of the live activity fails, for the moment (_halt_prewrite) or   *)
(* for good; a guard or the preflight refuses; there is nothing to send.   *)
EndBeforeAttempt(c) ==
    /\ call[c].at = "signup"
    /\ \/ call[c].op = "execute" /\ Return(c, FALSE, "export") /\ UNCHANGED status
       \/ call[c].op = "execute" /\ Stop(c, "export")
       \/ Stop(c, "guard")
       \/ \E how \in {"signup_pushed", "reconciled"} : status' = how /\ Return(c, TRUE, "none")
    /\ UNCHANGED <<outer, signup, platform, ends>>

(* ensure_attempt: the row of this manifest, a new one or an old one. *)
EnsureAttempt(c, m) ==
    /\ call[c].at = "signup" /\ status # "alarmed"
    /\ call[c].op = "recover" => m = Pending
    /\ signup' = IF signup[m] = "none" THEN [signup EXCEPT ![m] = "prepared"] ELSE signup
    /\ call' = [call EXCEPT ![c].at = "identity", ![c].scope = m]
    /\ UNCHANGED <<status, outer, platform, ends>>

(* durable_one_shot_guard, then the official export of the products, which *)
(* the recovery has made before.                                           *)
CheckIdentity(c) ==
    LET m == call[c].scope
    IN  /\ call[c].at = "identity"
        /\ \/ m \in Claimed /\ Stop(c, "guard") /\ UNCHANGED signup
           \/ m \notin Claimed /\ Goto(c, "claim_write") /\ UNCHANGED <<status, signup>>
           \/ /\ m \notin Claimed /\ call[c].op = "execute"
              /\ \/ /\ signup' = [signup EXCEPT ![m] = "retryable_prewrite"]
                    /\ Return(c, FALSE, "identity") /\ UNCHANGED status
                 \/ /\ signup' = [signup EXCEPT ![m] = "blocked_prewrite"]
                    /\ Goto(c, "blocked") /\ UNCHANGED status
        /\ UNCHANGED <<outer, platform, ends>>

StopBlocked(c) ==
    /\ call[c].at = "blocked" /\ Stop(c, "identity")
    /\ UNCHANGED <<outer, signup, platform, ends>>

(* claim_platform_write *)
ClaimWrite(c) ==
    LET m == call[c].scope
    IN  /\ call[c].at = "claim_write"
        /\ \/ /\ signup[m] \in {"prepared", "retryable_prewrite"}
              /\ signup' = [signup EXCEPT ![m] = "write_claimed"]
              /\ Goto(c, "upload") /\ UNCHANGED status
           \/ /\ signup[m] \notin {"prepared", "retryable_prewrite"}
              /\ Stop(c, "guard") /\ UNCHANGED signup
        /\ UNCHANGED <<outer, platform, ends>>

(* The workbook arrives or not; without a proof the outcome is unknown. *)
UploadSignup(c) ==
    /\ call[c].at = "upload"
    /\ \/ /\ platform' = [platform EXCEPT !.signups = @ + 1]
          /\ \E next \in {"proved", "unproved"} : Goto(c, next)
       \/ Goto(c, "unproved") /\ UNCHANGED platform
    /\ UNCHANGED <<rows, ends>>

RecordTerminal(c) ==
    /\ \/ /\ call[c].at = "proved"
          /\ signup' = [signup EXCEPT ![call[c].scope] = "platform_terminal"]
          /\ \E next \in {"verified", "refused"} : Goto(c, next)
       \/ /\ call[c].at = "unproved"
          /\ signup' = [signup EXCEPT ![call[c].scope] = "unknown_no_retry"]
          /\ Goto(c, "refused")
    /\ UNCHANGED <<status, outer, platform, ends>>

(* What the platform says is classified, exported again and compared. *)
Refuse(c) ==
    /\ call[c].at = "refused"
    /\ signup' = [signup EXCEPT ![call[c].scope] = "failed_no_retry"]
    /\ Goto(c, "stop")
    /\ UNCHANGED <<status, outer, platform, ends>>

StopRefused(c) ==
    /\ call[c].at = "stop" /\ Stop(c, "signup")
    /\ UNCHANGED <<outer, signup, platform, ends>>

PushPlan(c) ==
    /\ call[c].at = "verified"
    /\ status' = "signup_pushed"
    /\ Goto(c, "complete")
    /\ UNCHANGED <<outer, signup, platform, ends>>

Complete(c) ==
    /\ call[c].at = "complete"
    /\ signup' = [signup EXCEPT ![call[c].scope] = "completed"]
    /\ Return(c, TRUE, "none")
    /\ UNCHANGED <<status, outer, platform, ends>>

-----------------------------------------------------------------------------
(* The operation ends *)

(* The recovery leaves a status alone that push_signup has set. *)
Alarm(c) ==
    status' = IF call[c].op = "recover" /\ status # "resume_executing" THEN status ELSE "alarmed"

Close(c) ==
    /\ call[c].at = "close"
    /\ IF call[c].ok THEN UNCHANGED status ELSE Alarm(c)
    /\ Goto(c, "record")
    /\ UNCHANGED <<outer, signup, platform, ends>>

(* Mutant: a sign-up that came back is a sign-up that succeeded. *)
RecordMutant(c) ==
    /\ call[c].at = "record"
    /\ outer' = [outer EXCEPT ![call[c].op] = [state |-> "completed", why |-> call[c].why]]
    /\ call' = [call EXCEPT ![c] = Idle]
    /\ UNCHANGED <<status, signup, platform, ends>>

Record(c) ==
    /\ call[c].at = "record"
    /\ outer' = [outer EXCEPT ![call[c].op] =
                   [state |-> IF call[c].ok THEN "completed" ELSE "failed_no_retry",
                    why |-> call[c].why]]
    /\ call' = [call EXCEPT ![c] = Idle]
    /\ UNCHANGED <<status, signup, platform, ends>>

(* An exception that the service handles, also after the platform was      *)
(* called: claim and end of a recovery lie outside its try.                *)
Raise(c) ==
    /\ call[c].at \notin {"idle", "claim", "checked", "raised"}
    /\ call[c].op = "recover" => call[c].at \notin {"close", "record"}
    /\ Alarm(c)
    /\ Goto(c, "raised")
    /\ UNCHANGED <<outer, signup, platform, ends>>

RecordRaised(c) ==
    /\ call[c].at = "raised"
    /\ outer' = [outer EXCEPT ![call[c].op] = [state |-> "unknown_no_retry", why |-> "exception"]]
    /\ call' = [call EXCEPT ![c] = Idle]
    /\ UNCHANGED <<status, signup, platform, ends>>

(* A call that has claimed an operation and not yet recorded its end. *)
Working(c) == call[c].at \notin {"idle", "checked"}

(* An exception that nothing handles: at the claim, at the end of a        *)
(* recovery, or in the handler of another one.  The attempt stays open.    *)
Escape(c) ==
    /\ Working(c)
    /\ call' = [call EXCEPT ![c] = Idle]
    /\ lost' = lost \cup {call[c].op}
    /\ UNCHANGED <<rows, platform, crashes>>

Crash ==
    /\ crashes < MaxCrashes /\ \E c \in Calls : call[c] # Idle
    /\ crashes' = crashes + 1
    /\ call' = [c \in Calls |-> Idle]
    /\ lost' = lost \cup {o \in Ops : \E c \in Calls : Working(c) /\ call[c].op = o}
    /\ UNCHANGED <<rows, platform>>

Next ==
    \/ \E c \in Calls :
         \/ Execute(c) \/ Recover(c) \/ InsertRecovery(c) \/ ClaimOuter(c)
         \/ EditActivity(c) \/ NewBatch(c) \/ CommitDiscount(c) \/ EndBeforeAttempt(c)
         \/ \E m \in Manifests : EnsureAttempt(c, m)
         \/ CheckIdentity(c) \/ StopBlocked(c) \/ ClaimWrite(c) \/ UploadSignup(c) \/ RecordTerminal(c)
         \/ Refuse(c) \/ StopRefused(c) \/ PushPlan(c) \/ Complete(c)
         \/ Close(c) \/ Record(c) \/ Raise(c) \/ RecordRaised(c) \/ Escape(c)
    \/ Crash

Spec == Init /\ [][Next]_vars

-----------------------------------------------------------------------------
(* Properties *)

SignupStates == {"none", "prepared", "retryable_prewrite", "blocked_prewrite", "write_claimed",
                 "platform_terminal", "unknown_no_retry", "failed_no_retry", "completed"}

OuterStates == {"none", "prepared", "write_claimed", "unknown_no_retry", "failed_no_retry", "completed"}

Reasons == {"none", "discount", "export", "guard", "identity", "signup", "exception"}

Steps == {"idle", "checked", "claim", "discount", "discounted", "signup", "identity", "blocked",
          "claim_write", "upload", "proved", "unproved", "verified", "refused", "stop", "complete", "close",
          "record", "raised"}

TypeOK ==
    /\ status \in {"alarmed", "discount_pushed", "resume_executing", "signup_pushed", "reconciled"}
    /\ outer \in [Ops -> [state : OuterStates, why : Reasons]]
    /\ signup \in [Manifests -> SignupStates]
    /\ call \in [Calls -> [at : Steps, op : Ops, scope : Manifests \cup {None}, ok : BOOLEAN,
                           why : Reasons, edits : SUBSET Items, fresh : SUBSET Items,
                           retried : BOOLEAN]]
    /\ platform \in [live : SUBSET Items, entered : [Items -> Nat], signups : Nat]
    /\ lost \in SUBSET Ops
    /\ crashes \in 0..MaxCrashes

(* The sign-up of the plan as a one-shot action on the platform: over the  *)
(* execution and its recovery together, overlapping calls, exceptions,     *)
(* restarts and lost answers, the platform receives it at most once, never *)
(* before a claim is on record and never after the claim is given up.      *)
Write == INSTANCE OneShot WITH Things <- {"signup"},
                               phase <- [u \in {"signup"} |-> IF Claimed = {} THEN "open" ELSE "claimed"],
                               effects <- [u \in {"signup"} |-> platform.signups]

SignupIsOneShot == Write!Spec

(* A row that a new batch has entered on the platform is never sent in a   *)
(* new batch again: not by the second push after a conflict, nor by a call *)
(* that overlaps, follows a restart or recovers.  (An edit of an existing  *)
(* activity is sent again; it sets the same prices.)                       *)
NewRowsOnce == \A i \in Items : platform.entered[i] <= 1

(* No product is signed up for the campaign before the platform has put    *)
(* the discount of every item in force, whichever operation sends it and   *)
(* in however many workbooks, edits and pushes the discounts went out.     *)
SignupNeedsDiscount == platform.signups > 0 => platform.live = Items

(* An attempt that is reported as completed belongs to a plan that is      *)
(* registered, or needed nothing; no later call takes that away.           *)
CompletedIsRegistered ==
    \A o \in Ops : outer[o].state = "completed" => status \in {"signup_pushed", "reconciled"}

=============================================================================
