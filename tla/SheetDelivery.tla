--------------------------- MODULE SheetDelivery ---------------------------
(***************************************************************************)
(* How the production sheet of an order line reaches the factory's chat    *)
(* group: reconcile_pending_delivery of order_sheet_archive_service and    *)
(* the two ways around it, an operator's scoped resume and a factory       *)
(* reply to a quantity question.                                           *)
(*                                                                         *)
(* A worker is one call in flight: a scheduled job, a chat callback or an  *)
(* API request.  They run in threads of one process with a database        *)
(* session each, so they overlap, and a restart of the process ends them   *)
(* all.  What a worker has not committed is lost with it; what the chat    *)
(* has received is not.  A call to the chat ends with a message id or with *)
(* an error, and an error does not tell whether the message arrived.       *)
(*                                                                         *)
(* A line stands for an order with this one line that is paid and has an   *)
(* address and a SKU; lines are their row ids.                             *)
(***************************************************************************)
EXTENDS Integers, FiniteSets, FiniteSetsExt

CONSTANTS
    Workers,
    Callers,        \* workers that run the whole reconciliation, the others named lines
    Lines,          \* order_details.id, a set of numbers
    Ambiguous,      \* lines whose quantity only the factory's customer service knows
    Changes,        \* what may happen to an order meanwhile
    Limit,          \* lines one call works on
    MaxCrashes,     \* bound: restarts of the process
    None

ASSUME SheetAssumption ==
    /\ Lines \subseteq Nat /\ IsFiniteSet(Lines) /\ None \notin Lines
    /\ Callers \subseteq Workers /\ IsFiniteSet(Callers) /\ Ambiguous \subseteq Lines
    /\ Changes \subseteq {"refund", "delay", "activate", "edit"}
    /\ Limit \in Nat /\ MaxCrashes \in Nat

VARIABLES
    order,      \* refunded, hold ("normal", "remote" or "activated"), and edited:
                \* other facts than when its quantity was asked for
    line,       \* order_details.factory_delivery_state, factory_no, message id
    sent,       \* imported_files of kind order_sheet_sent
    void,       \* the latest imported_files row of kind order_sheet_void
    question,   \* factory_quantity_request of each line
    verified,   \* ambiguous lines with a quantity confirmation
    worker,
    group,      \* what the chat group has received (external)
    crashes

tables == <<order, line, sent, void, question, verified>>
vars   == <<tables, worker, group, crashes>>

FreeStates == {"none", "failed"}

Steps == {"idle", "supersede", "refunds", "void", "void_card", "void_answered", "pending",
          "receipts", "lines", "claimed", "render", "ask", "card", "send", "answered",
          "unanswered", "explain", "reply"}

NewLine == [state |-> "none", no |-> 0, msg |-> FALSE]

(* at is the next step, todo the lines left to visit, due those whose      *)
(* explanation an earlier call left over, on the line in hand, known the   *)
(* evidence it read, no the number it will assign, tries the lines that    *)
(* count towards Limit.                                                    *)
Idle == [at |-> "idle", todo |-> {}, due |-> {}, on |-> None, known |-> {}, no |-> 0, tries |-> 0]

Init ==
    /\ order = [l \in Lines |-> [refunded |-> FALSE, hold |-> "normal", edited |-> FALSE]]
    /\ line = [l \in Lines |-> NewLine]
    /\ sent = {}
    /\ void = [l \in Lines |-> "none"]
    /\ question = [l \in Lines |-> "none"]
    /\ verified = {}
    /\ worker = [w \in Workers |-> Idle]
    /\ group = [l \in Lines |-> [sheets |-> 0, nos |-> {}, voids |-> 0, replies |-> 0]]
    /\ crashes = 0

-----------------------------------------------------------------------------
(* What the rows say *)

(* Mutant: a superseded picture still proves that the line was sent. *)
EvidenceMutant(l) == {e \in sent : e.line = l}

(* sent_line_evidence: superseded pictures no longer count. *)
Evidence(l) == {e \in sent : e.line = l /\ ~e.superseded}

SentLines == {l \in Lines : Evidence(l) # {}}

(* line_is_factory_eligible, and order_flags.is_remote. *)
Eligible(l) == ~order[l].refunded /\ order[l].hold # "remote"

Free(l) == line[l].state \in FreeStates /\ ~line[l].msg

(* The first rows a call takes, in the order of their ids. *)
Lowest(S) == {l \in S : Cardinality({k \in S : k < l}) < Limit}

Numbers == {line[l].no : l \in Lines}

(* next_factory_no: the highest number any row holds now, and one more. *)
NextNo == Max(Numbers \cup {0}) + 1

-----------------------------------------------------------------------------
(* A call starts *)

Begin(w, step) ==
    /\ worker[w].at = "idle"
    /\ worker' = [worker EXCEPT ![w] = step]

(* reconcile_pending_delivery begins with repush_activated, which reads    *)
(* the evidence of sheets that were not sent for an activated order.       *)
Start(w) ==
    /\ w \in Callers
    /\ LET stale == {l \in SentLines : \A e \in Evidence(l) : ~e.activated}
       IN  Begin(w, [Idle EXCEPT !.at = "supersede", !.todo = stale,
                                 !.known = UNION {Evidence(l) : l \in stale}])
    /\ UNCHANGED <<tables, group, crashes>>

(* order_scoped_resume: the lines an operator names, if nothing was tried. *)
Resume(w, scope) ==
    /\ w \notin Callers
    /\ Begin(w, [Idle EXCEPT !.at = "pending",
                   !.todo = {l \in scope \ SentLines : Free(l) /\ Eligible(l)}])
    /\ UNCHANGED <<tables, group, crashes>>

(* handle_reply: the first answer to the question card of a line confirms  *)
(* its quantity and sends that line, unless the order or the line has      *)
(* moved on.  (An answer that contradicts an operator's confirmation is    *)
(* told so and changes nothing.)                                           *)
Reply(w, l) ==
    /\ w \notin Callers /\ question[l] = "awaiting_reply"
    /\ \/ /\ Eligible(l) /\ Free(l) /\ ~order[l].edited
          /\ question' = [question EXCEPT ![l] = "confirmed"]
          /\ verified' = verified \cup {l}
          /\ Begin(w, [Idle EXCEPT !.at = "pending", !.todo = {l}])
       \/ /\ ~(Eligible(l) /\ Free(l)) \/ order[l].edited
          /\ worker[w].at = "idle"
          /\ question' = [question EXCEPT ![l] = "held"]
          /\ UNCHANGED <<verified, worker>>
    /\ UNCHANGED <<order, line, sent, void, group, crashes>>

-----------------------------------------------------------------------------
(* repush_activated *)

(* The customer let production start after a sheet was sent: its evidence  *)
(* is superseded and the line starts over with a new number.  The group is *)
(* told the old number only if the order itself has one, and a line that   *)
(* is sent by itself leaves that number empty.                             *)
Supersede(w) ==
    LET me == worker[w]
        reset == {l \in me.todo : order[l].hold = "activated" /\ ~order[l].refunded}
    IN  /\ me.at = "supersede"
        /\ sent' = {IF e \in me.known /\ e.line \in reset
                    THEN [e EXCEPT !.superseded = TRUE] ELSE e : e \in sent}
        /\ line' = [l \in Lines |-> IF l \in reset THEN NewLine ELSE line[l]]
        /\ worker' = [worker EXCEPT ![w] = [Idle EXCEPT !.at = "refunds"]]
        /\ UNCHANGED <<order, void, question, verified, group, crashes>>

-----------------------------------------------------------------------------
(* reconcile_refunded_order_lines *)

(* Mutant: only orders that are not on hold are looked at. *)
ReadRefundsMutant(w) ==
    /\ worker[w].at = "refunds"
    /\ worker' = [worker EXCEPT ![w].at = "void",
                    ![w].todo = Lowest({l \in SentLines : order[l].refunded /\ void[l] = "none"
                                                          /\ order[l].hold # "remote"})]
    /\ UNCHANGED <<tables, group, crashes>>

ReadRefunds(w) ==
    /\ worker[w].at = "refunds"
    /\ worker' = [worker EXCEPT ![w].at = "void",
                    ![w].todo = Lowest({l \in SentLines : order[l].refunded /\ void[l] = "none"})]
    /\ UNCHANGED <<tables, group, crashes>>

(* Mutant: the row is written as sent before the notice has gone out. *)
ArchiveVoidMutant(w, l) ==
    /\ worker[w].at = "void" /\ l \in worker[w].todo
    /\ worker' = [worker EXCEPT ![w].at = "void_card", ![w].on = l, ![w].todo = @ \ {l}]
    /\ UNCHANGED <<tables, group, crashes>>

(* The archive row exists before the notice is sent, its outcome unknown. *)
ArchiveVoid(w, l) ==
    /\ worker[w].at = "void" /\ l \in worker[w].todo
    /\ void' = [void EXCEPT ![l] = "unknown"]
    /\ worker' = [worker EXCEPT ![w].at = "void_card", ![w].on = l, ![w].todo = @ \ {l}]
    /\ UNCHANGED <<order, line, sent, question, verified, group, crashes>>

(* Rendering or uploading failed: the next call tries again. *)
VoidFails(w, l) ==
    /\ worker[w].at = "void" /\ l \in worker[w].todo
    /\ worker' = [worker EXCEPT ![w].todo = @ \ {l}]
    /\ UNCHANGED <<tables, group, crashes>>

SendVoid(w) ==
    LET l == worker[w].on
    IN  /\ worker[w].at = "void_card"
        /\ \/ /\ group' = [group EXCEPT ![l].voids = @ + 1]
              /\ \E next \in {"void_answered", "void"} :
                   worker' = [worker EXCEPT ![w].at = next]
           \/ worker' = [worker EXCEPT ![w].at = "void"] /\ UNCHANGED group
        /\ UNCHANGED <<tables, crashes>>

RecordVoid(w) ==
    /\ worker[w].at = "void_answered"
    /\ void' = [void EXCEPT ![worker[w].on] = "sent"]
    /\ worker' = [worker EXCEPT ![w].at = "void"]
    /\ UNCHANGED <<order, line, sent, question, verified, group, crashes>>

-----------------------------------------------------------------------------
(* reconcile_order_line_delivery *)

(* Mutant: a claim that was not followed by a message is taken up again. *)
DueMutant(l) ==
    question[l] \in {"confirmed", "claimed"} /\ line[l].state = "sent" /\ line[l].msg

(* A confirmed quantity is explained to the group once its picture is out. *)
Due(l) == question[l] = "confirmed" /\ line[l].state = "sent" /\ line[l].msg

(* Mutant: explanations that an earlier call left behind are not resumed. *)
ReadReceiptsMutant(w) ==
    LET me == worker[w]
    IN  /\ me.at = "pending" \/ (me.at = "void" /\ me.todo = {})
        /\ worker' = [worker EXCEPT ![w].at = "receipts",
                        ![w].todo = IF w \in Callers THEN Lines ELSE me.todo]
        /\ UNCHANGED <<tables, group, crashes>>

(* complete_pending_receipts reads which explanations were left over. *)
ReadReceipts(w) ==
    LET me == worker[w]
        scope == IF w \in Callers THEN Lines ELSE me.todo
    IN  /\ me.at = "pending" \/ (me.at = "void" /\ me.todo = {})
        /\ worker' = [worker EXCEPT ![w].at = "receipts", ![w].todo = scope,
                        ![w].due = {l \in scope : Due(l)}]
        /\ UNCHANGED <<tables, group, crashes>>

(* Back to the loop that line l came from. *)
Return(w, l) ==
    worker' = [worker EXCEPT ![w].at = IF l \in worker[w].due THEN "receipts" ELSE "lines",
                 ![w].due = @ \ {l}]

(* complete_delivery, after a picture and for what was left over: whoever  *)
(* comes first claims the explanation, under the lock of its row.          *)
ClaimReply(w, l) ==
    /\ \/ worker[w].at = "explain" /\ worker[w].on = l
       \/ worker[w].at = "receipts" /\ l \in worker[w].due
    /\ \/ /\ Due(l)
          /\ question' = [question EXCEPT ![l] = "claimed"]
          /\ worker' = [worker EXCEPT ![w].at = "reply", ![w].on = l]
       \/ ~Due(l) /\ Return(w, l) /\ UNCHANGED question
    /\ UNCHANGED <<order, line, sent, void, verified, group, crashes>>

(* The factory's table is brought up to date, then the explanation goes    *)
(* out.  An error of either is recorded; the claim stays.                  *)
SendReply(w) ==
    LET l == worker[w].on
    IN  /\ worker[w].at = "reply"
        /\ \/ /\ group' = [group EXCEPT ![l].replies = @ + 1]
              /\ \E answer \in {"claimed", "explained"} :
                   question' = [question EXCEPT ![l] = answer]
           \/ UNCHANGED <<group, question>>
        /\ Return(w, l)
        /\ UNCHANGED <<order, line, sent, void, verified, crashes>>

(* The evidence and the eligible lines are read once for the whole loop. *)
ReadLines(w) ==
    /\ worker[w].at = "receipts" /\ worker[w].due = {}
    /\ worker' = [worker EXCEPT ![w].at = "lines", ![w].on = None,
                    ![w].todo = {l \in worker[w].todo \ SentLines : Eligible(l)}]
    /\ UNCHANGED <<tables, group, crashes>>

Visits(w, l) ==
    /\ worker[w].at = "lines"
    /\ l \in worker[w].todo /\ \A k \in worker[w].todo : l <= k

Pass(w, l, counts) ==
    worker' = [worker EXCEPT ![w].todo = @ \ {l}, ![w].tries = @ + counts]

(* The orders were read with the lines, none on hold; the first commit of  *)
(* the loop makes the call read them again.                                *)
OnHold(w, l) == worker[w].on # None /\ order[l].hold = "remote"

(* A line past the limit or now on hold is left for later.  One that is    *)
(* being sent, was sent or may have been sent is reported and counts.      *)
Skip(w, l) ==
    /\ Visits(w, l)
    /\ \/ worker[w].tries >= Limit /\ Pass(w, l, 0)
       \/ worker[w].tries < Limit /\ ~Free(l) /\ Pass(w, l, 1)
       \/ worker[w].tries < Limit /\ Free(l) /\ OnHold(w, l) /\ Pass(w, l, 0)
    /\ UNCHANGED <<tables, group, crashes>>

(* Mutant: the state is checked on the row that was read, not by the       *)
(* condition of the UPDATE.                                                *)
ClaimMutant(w, l) ==
    /\ Visits(w, l) /\ worker[w].tries < Limit
    /\ Free(l) /\ ~OnHold(w, l)
    /\ worker' = [worker EXCEPT ![w].at = "claimed", ![w].on = l, ![w].todo = @ \ {l},
                    ![w].no = IF line[l].no = 0 THEN NextNo ELSE line[l].no]
    /\ UNCHANGED <<tables, group, crashes>>

(* UPDATE ... WHERE the state is empty or failed: another claim of the row *)
(* that is not committed yet makes it wait.                                *)
Claim(w, l) ==
    /\ Visits(w, l) /\ worker[w].tries < Limit
    /\ Free(l) /\ ~OnHold(w, l)
    /\ \A v \in Workers : ~(worker[v].at = "claimed" /\ worker[v].on = l)
    /\ worker' = [worker EXCEPT ![w].at = "claimed", ![w].on = l, ![w].todo = @ \ {l},
                    ![w].no = IF line[l].no = 0 THEN NextNo ELSE line[l].no]
    /\ UNCHANGED <<tables, group, crashes>>

(* Mutant: the number is not unique in the table. *)
CommitClaimMutant(w) ==
    /\ worker[w].at = "claimed"
    /\ line' = [line EXCEPT ![worker[w].on] =
                  [state |-> "rendering", no |-> worker[w].no, msg |-> FALSE]]
    /\ worker' = [worker EXCEPT ![w].at = "render"]
    /\ UNCHANGED <<order, sent, void, question, verified, group, crashes>>

(* factory_no is unique: a number somebody else took in between raises     *)
(* outside the try block and ends the whole call.                          *)
CommitClaim(w) ==
    LET me == worker[w]
    IN  /\ me.at = "claimed"
        /\ \/ /\ \E l \in Lines \ {me.on} : line[l].no = me.no
              /\ worker' = [worker EXCEPT ![w] = Idle]
              /\ UNCHANGED line
           \/ /\ \A l \in Lines \ {me.on} : line[l].no # me.no
              /\ line' = [line EXCEPT ![me.on] = [state |-> "rendering", no |-> me.no, msg |-> FALSE]]
              /\ worker' = [worker EXCEPT ![w].at = "render"]
        /\ UNCHANGED <<order, sent, void, question, verified, group, crashes>>

(* The confirmation is that of the order as it is now. *)
Known(l) == l \notin Ambiguous \/ (l \in verified /\ ~order[l].edited)

(* Rendered and uploaded; the state says so before the chat is called. *)
MarkSending(w) ==
    LET l == worker[w].on
    IN  /\ worker[w].at = "render" /\ Known(l)
        /\ line' = [line EXCEPT ![l].state = "sending_image"]
        /\ worker' = [worker EXCEPT ![w].at = "send"]
        /\ UNCHANGED <<order, sent, void, question, verified, group, crashes>>

(* Mutant: a failure that is to be retried gets the word of the questions. *)
RenderFailsMutant(w) ==
    /\ worker[w].at = "render"
    /\ line' = [line EXCEPT ![worker[w].on].state = "held"]
    /\ worker' = [worker EXCEPT ![w].at = "lines", ![w].tries = @ + 1]
    /\ UNCHANGED <<order, sent, void, question, verified, group, crashes>>

(* A failure before the chat is called can be retried; an unknown quantity *)
(* is such a failure and asks for the quantity.                            *)
RenderFails(w) ==
    LET l == worker[w].on
    IN  /\ worker[w].at = "render"
        /\ line' = [line EXCEPT ![l].state = "failed"]
        /\ \/ ~Known(l) /\ worker' = [worker EXCEPT ![w].at = "ask"]
           \/ worker' = [worker EXCEPT ![w].at = "lines", ![w].tries = @ + 1]
        /\ UNCHANGED <<order, sent, void, question, verified, group, crashes>>

(* request_quantity, under the row lock of the line: one question ever. *)
Ask(w) ==
    LET l == worker[w].on
        due == question[l] = "none" /\ Eligible(l) /\ Free(l)
    IN  /\ worker[w].at = "ask"
        /\ question' = IF due THEN [question EXCEPT ![l] = "asking"] ELSE question
        /\ worker' = IF due THEN [worker EXCEPT ![w].at = "card"]
                     ELSE [worker EXCEPT ![w].at = "lines", ![w].tries = @ + 1]
        /\ UNCHANGED <<order, line, sent, void, verified, group, crashes>>

SendCard(w) ==
    /\ worker[w].at = "card"
    /\ \E answer \in {"awaiting_reply", "ask_uncertain"} :
         question' = [question EXCEPT ![worker[w].on] = answer]
    /\ worker' = [worker EXCEPT ![w].at = "lines", ![w].tries = @ + 1]
    /\ UNCHANGED <<order, line, sent, void, verified, group, crashes>>

(* The picture arrives or not, the answer arrives or not. *)
SendImage(w) ==
    LET l == worker[w].on
    IN  /\ worker[w].at = "send"
        /\ \/ /\ group' = [group EXCEPT ![l].sheets = @ + 1, ![l].nos = @ \cup {worker[w].no}]
              /\ \E next \in {"answered", "unanswered"} :
                   worker' = [worker EXCEPT ![w].at = next]
           \/ worker' = [worker EXCEPT ![w].at = "unanswered"] /\ UNCHANGED group
        /\ UNCHANGED <<tables, crashes>>

(* Archive, state and message id are committed together. *)
Record(w) ==
    LET l == worker[w].on
        e == [line |-> l, no |-> line[l].no, activated |-> order[l].hold = "activated",
              superseded |-> FALSE]
    IN  /\ worker[w].at = "answered" /\ line[l].no # 0
        /\ sent' = sent \cup {e}
        /\ line' = [line EXCEPT ![l].state = "sent", ![l].msg = TRUE]
        /\ worker' = [worker EXCEPT ![w].at = "explain", ![w].tries = @ + 1]
        /\ UNCHANGED <<order, void, question, verified, group, crashes>>

(* Mutant: an error while sending counts as not sent. *)
SettleUnknownMutant(w) ==
    /\ worker[w].at \in {"answered", "unanswered"}
    /\ line' = [line EXCEPT ![worker[w].on].state = "failed"]
    /\ worker' = [worker EXCEPT ![w].at = "lines", ![w].tries = @ + 1]
    /\ UNCHANGED <<order, sent, void, question, verified, group, crashes>>

(* No message id, or what it proves could not be archived. *)
SettleUnknown(w) ==
    /\ worker[w].at \in {"answered", "unanswered"}
    /\ line' = [line EXCEPT ![worker[w].on].state = "uncertain"]
    /\ worker' = [worker EXCEPT ![w].at = "lines", ![w].tries = @ + 1]
    /\ UNCHANGED <<order, sent, void, question, verified, group, crashes>>

Finish(w) ==
    /\ worker[w].at = "lines" /\ worker[w].todo = {}
    /\ worker' = [worker EXCEPT ![w] = Idle]
    /\ UNCHANGED <<tables, group, crashes>>

-----------------------------------------------------------------------------
(* Around the calls *)

(* The process restarts; nothing resets the claims of its workers. *)
Crash ==
    /\ crashes < MaxCrashes /\ \E w \in Workers : worker[w] # Idle
    /\ crashes' = crashes + 1
    /\ worker' = [w \in Workers |-> Idle]
    /\ UNCHANGED <<tables, group>>

(* Imports and operators change the order. *)
ChangeOrder(l) ==
    /\ \/ "refund" \in Changes /\ order' = [order EXCEPT ![l].refunded = TRUE]
       \/ "delay" \in Changes /\ order[l].hold = "normal"
          /\ order' = [order EXCEPT ![l].hold = "remote"]
       \/ "activate" \in Changes /\ order' = [order EXCEPT ![l].hold = "activated"]
       \/ "edit" \in Changes /\ question[l] # "none"
          /\ order' = [order EXCEPT ![l].edited = ~@]
    /\ UNCHANGED <<line, sent, void, question, verified, worker, group, crashes>>

VoidStep(w) ==
    \/ ReadRefunds(w) \/ SendVoid(w) \/ RecordVoid(w)
    \/ \E l \in Lines : VoidFails(w, l)

LineStep(w) ==
    \/ ReadReceipts(w) \/ SendReply(w) \/ ReadLines(w)
    \/ CommitClaim(w) \/ MarkSending(w) \/ RenderFails(w)
    \/ Ask(w) \/ SendCard(w) \/ SendImage(w) \/ Record(w)
    \/ SettleUnknown(w) \/ Finish(w)
    \/ \E l \in Lines : ClaimReply(w, l) \/ Skip(w, l) \/ Claim(w, l)

Next ==
    \/ \E w \in Workers :
         \/ Start(w) \/ \E scope \in SUBSET Lines \ {{}} : Resume(w, scope)
         \/ Supersede(w) \/ VoidStep(w) \/ LineStep(w)
         \/ \E l \in Lines : ArchiveVoid(w, l) \/ Reply(w, l)
    \/ Crash
    \/ \E l \in Lines : ChangeOrder(l)

Spec == Init /\ [][Next]_vars

(* The daily jobs that run the reconciliation call it again and again, a   *)
(* running call takes its next step and gets a row lock it waits for, and  *)
(* drawing a void notice does not fail for ever.                           *)
FairSpec ==
    /\ Spec
    /\ \A w \in Workers : SF_vars(LineStep(w))
    /\ \A w \in Callers :
         /\ WF_vars(Start(w) \/ Supersede(w) \/ VoidStep(w))
         /\ \A l \in Lines : SF_vars(ArchiveVoid(w, l))

-----------------------------------------------------------------------------
(* Properties *)

TypeOK ==
    /\ order \in [Lines -> [refunded : BOOLEAN, hold : {"normal", "remote", "activated"},
                        edited : BOOLEAN]]
    /\ line \in [Lines -> [state : FreeStates \cup {"rendering", "sending_image", "sent", "uncertain"},
                           no : Nat, msg : BOOLEAN]]
    /\ sent \subseteq [line : Lines, no : Nat, activated : BOOLEAN, superseded : BOOLEAN]
    /\ void \in [Lines -> {"none", "unknown", "sent"}]
    /\ question \in [Lines -> {"none", "asking", "awaiting_reply", "ask_uncertain",
                               "confirmed", "held", "claimed", "explained"}]
    /\ verified \subseteq Lines
    /\ worker \in [Workers -> [at : Steps, todo : SUBSET Lines, due : SUBSET Lines, on : Lines \cup {None},
                               known : SUBSET [line : Lines, no : Nat, activated : BOOLEAN,
                                               superseded : BOOLEAN],
                               no : Nat, tries : Nat]]
    /\ group \in [Lines -> [sheets : Nat, nos : SUBSET Nat, voids : Nat, replies : Nat]]
    /\ crashes \in 0..MaxCrashes

(* How often an activation has started the line over. *)
Generation(l) == Cardinality({e \in sent : e.line = l /\ e.superseded})

(* Workers that overlap, restarts and lost answers never make a second     *)
(* picture of a line: each one the group has received beyond the first     *)
(* belongs to a generation that an activation has superseded.              *)
OneSheetPerGeneration == \A l \in Lines : group[l].sheets <= 1 + Generation(l)

(* The group is never shown one number for two lines, unless one of them   *)
(* was started over by an activation, which gives its number back.         *)
NumbersAreDistinct ==
    \A k, l \in Lines : k # l /\ Generation(k) = 0 /\ Generation(l) = 0 =>
        group[k].nos \cap group[l].nos = {}

(* A line is withdrawn once by each call that overlaps the first one, at   *)
(* most: a restart or a lost answer in the middle of a withdrawal never    *)
(* makes a later call withdraw it again.                                   *)
OneVoidNotice == \A l \in Lines : group[l].voids <= Cardinality(Callers)

(* The group is told once of a confirmed quantity: calls that overlap,     *)
(* restarts, lost answers and pictures that are sent again for an          *)
(* activation never repeat the explanation.                                *)
OneExplanation == \A l \in Lines : group[l].replies <= 1

(* The line of a recorded picture is withdrawn after a refund: the notice  *)
(* goes out or its outcome is known to be unknown.                         *)
RefundIsAnswered == \A l \in Lines : (l \in SentLines /\ order[l].refunded) ~> void[l] # "none"

(* The explanation of a confirmed quantity whose picture is out and stands *)
(* is taken up, also when the process restarted after the picture.  (What  *)
(* was taken up and then failed is left to a person.)                      *)
ReplyIsTakenUp ==
    \A l \in Lines : (question[l] = "confirmed" /\ line[l].state = "sent")
                      ~> (question[l] # "confirmed" \/ line[l].state # "sent")

-----------------------------------------------------------------------------
(* The sheet of each line and generation as a one-shot action on the chat. *)
(* A sheet sent for an activated order is final: there are two generations *)
(* at most.                                                                *)

Sheets == Lines \X {0, 1}

Committed(l) == line[l].state \notin FreeStates \cup {"rendering"}

Phase(l, g) == IF g < Generation(l) \/ (g = Generation(l) /\ Committed(l)) THEN "claimed" ELSE "open"

Received(l, g) ==
    CASE g < Generation(l) -> 1
      [] g = Generation(l) -> group[l].sheets - Generation(l)
      [] g > Generation(l) -> 0

Sheet == INSTANCE OneShot WITH Things <- Sheets,
                               phase <- [t \in Sheets |-> Phase(t[1], t[2])],
                               effects <- [t \in Sheets |-> Received(t[1], t[2])]

SheetIsOneShot == Sheet!Spec

=============================================================================
