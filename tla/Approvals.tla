------------------------------- MODULE Approvals -------------------------------
(****************************************************************************)
(* The approval engine: requests with their steps (admin/approval-engine.ts,*)
(* admin/approvals.ts) and the documents that go through it.  One kind of   *)
(* document stands for those whose handlers have the same shape:            *)
(*   bill         bills, payroll runs and bonus runs                        *)
(*   order        purchase orders                                           *)
(*   requisition  purchase requisitions                                     *)
(*   claim        expense claims                                            *)
(*                                                                          *)
(* A call reads without locks what it decides on.  Its updates go by id,    *)
(* whatever the rows hold by then, and lock the rows to the commit: first   *)
(* the step or the request, then the document.                              *)
(****************************************************************************)
EXTENDS Naturals, SequencesExt, FiniteSetsExt

CONSTANTS
  Docs,         \* documents
  Users,        \* who submits and decides
  Policies,     \* the active policies: the approvers of each step
  Calls,        \* the calls that may be in flight at the same time
  Never,        \* a column that is NULL
  MaxRequests   \* bound on the approval requests

Kinds == {"bill", "order", "requisition", "claim"}

ASSUME ApprovalAssumption ==
  /\ Policies \subseteq Seq(SUBSET Users)
  /\ \A p \in Policies : p # <<>> /\ \A n \in DOMAIN p : p[n] # {}
  /\ MaxRequests \in Nat
  /\ Never \notin Nat /\ Never \notin Users /\ Never \notin Policies

VARIABLES
  doc,        \* kind, status and approval_request_id of each document
  request,    \* approval_requests with their steps, in the order of creation
  txn,        \* what each call in flight has read
  issued,     \* history: how often a document was posted, sent or approved,
              \* counted up to 2
  via,        \* history: the request that issued it last
  overtaken   \* history: documents on which a call has overwritten what another
              \* one had decided since it read

vars == <<doc, request, txn, issued, via, overtaken>>

Idle == [act |-> "none"]

DraftRow(kind) == [kind |-> kind, status |-> "draft", link |-> Never]

Init ==
  /\ doc \in [Docs -> {DraftRow(k) : k \in Kinds}]
  /\ request = <<>>
  /\ txn = [c \in Calls |-> Idle]
  /\ issued = [d \in Docs |-> 0]
  /\ via = [d \in Docs |-> Never]
  /\ overtaken = {}

--------------------------------------------------------------------------------
(* The documents.  "waiting" is pending_approval, or submitted for a claim;   *)
(* "issued" is posted for a bill, sent for an order, approved for the others.  *)

\* What a rejection by an approver makes of the document.
Rejected(row) ==
  CASE row.kind \in {"bill", "order"} -> [row EXCEPT !.status = "draft", !.link = Never]
    [] row.kind = "requisition" -> [row EXCEPT !.status = "rejected", !.link = Never]
    [] row.kind = "claim"       -> [row EXCEPT !.status = "rejected"]

\* What the submitter's withdrawal makes of it.
Withdrawn(row) ==
  IF row.kind = "claim" THEN [row EXCEPT !.status = "rejected"]
                        ELSE [row EXCEPT !.status = "draft", !.link = Never]

\* What the posting, sending or approving of it writes.
Issued(row) ==
  [row EXCEPT !.status = "issued",
              !.link   = IF row.kind \in {"bill", "claim"} THEN @ ELSE Never]

\* What its own cancel or void handler writes.
Cancelled(row) ==
  [row EXCEPT !.status = "cancelled",
              !.link   = IF row.kind = "claim" THEN @ ELSE Never]

\* Which documents a handler takes, by what it reads.
Submittable(row) ==
  row.status = "draft" /\ (row.kind = "claim" \/ row.link = Never)

Cancellable(row) ==
  /\ row.kind # "bill"
  /\ row.status # "cancelled" \/ row.kind = "order"

Editable(row) ==
  row.status = "rejected" /\ row.kind \in {"requisition", "claim"}

\* The handlers from before the engine leave alone what it owns.
Acknowledgeable(row) ==
  row.kind = "order" /\ row.link = Never /\ row.status \in {"draft", "issued"}

Decidable(row) ==
  /\ row.link = Never
  /\ \/ row.kind = "claim" /\ row.status = "waiting"
     \/ row.kind = "requisition" /\ row.status = "draft"

--------------------------------------------------------------------------------
(* The requests.                                                              *)

Step(approvers) == [approvers |-> approvers, status |-> "pending", by |-> Never]

NewRequest(d, user, policy) ==
  [doc |-> d, submitter |-> user, status |-> "pending", idx |-> 1,
   steps |-> [n \in DOMAIN policy |-> Step(policy[n])]]

Pending(r) == request[r].status = "pending"

\* Mutant: a document may have any number of pending requests.
NoOpenIndex(d) == d \in Docs

\* approval_requests_open_document_unique: a second submission of a document waits
\* for the first, and fails while that is undecided.
OpenIndex(d) == \A r \in DOMAIN request : Pending(r) => request[r].doc # d

Skip(steps) ==
  [n \in DOMAIN steps |->
     IF steps[n].status = "pending" THEN [steps[n] EXCEPT !.status = "skipped"]
                                    ELSE steps[n]]

\* Mutant: a cancel does not look at the status of the request.
CancelAnyway(req) ==
  [req EXCEPT !.status = "cancelled", !.steps = Skip(req.steps)]

\* cancelApprovalRequest: a request that is no longer pending keeps its status.
CancelRequest(req) ==
  [req EXCEPT !.status = IF req.status = "pending" THEN "cancelled" ELSE @,
              !.steps  = Skip(req.steps)]

--------------------------------------------------------------------------------
(* Calls.                                                                     *)

Begin(c, call) ==
  /\ txn[c] = Idle
  /\ txn' = [txn EXCEPT ![c] = call]
  /\ UNCHANGED <<doc, request, issued, via, overtaken>>

Doing(c, act) == txn[c] # Idle /\ txn[c].act = act

End(c) == txn' = [txn EXCEPT ![c] = Idle]

\* A handler throws, the connection drops, or PostgreSQL breaks the deadlock of a
\* decision, which locks the step first, and a cancel, which locks the request.
Fail(c) ==
  /\ txn[c] # Idle
  /\ End(c)
  /\ UNCHANGED <<doc, request, issued, via, overtaken>>

\* A handler of the document reads its row.
BeginOn(c, act, d, user) ==
  Begin(c, [act |-> act, doc |-> d, read |-> doc[d], user |-> user])

BeginSubmit(c) ==
  \E d \in Docs, u \in Users : Submittable(doc[d]) /\ BeginOn(c, "submit", d, u)
BeginCancel(c) ==
  \E d \in Docs : Cancellable(doc[d]) /\ BeginOn(c, "cancel", d, Never)
BeginEdit(c) ==
  \E d \in Docs : Editable(doc[d]) /\ BeginOn(c, "edit", d, Never)
BeginAcknowledge(c) ==
  \E d \in Docs : Acknowledgeable(doc[d]) /\ BeginOn(c, "acknowledge", d, Never)
BeginDirect(c) ==
  \E d \in Docs, act \in {"grant", "refuse"} :
    /\ Decidable(doc[d])
    /\ act = "grant" => doc[d].kind = "claim"
    /\ BeginOn(c, act, d, Never)

\* recordDecision: the request is pending, and so is its current step, which the
\* decider is an approver of and did not submit.
BeginDecision(c) ==
  \E r \in DOMAIN request, u \in Users, act \in {"approve", "reject"} :
    LET req == request[r]
    IN  /\ Pending(r)
        /\ u # req.submitter
        /\ req.steps[req.idx].status = "pending"
        /\ u \in req.steps[req.idx].approvers
        /\ Begin(c, [act |-> act, req |-> r, at |-> req.idx, user |-> u])

\* POST /approvals/:id/cancel, for the submitter only.
BeginWithdraw(c) ==
  \E r \in DOMAIN request :
    /\ Pending(r)
    /\ Begin(c, [act |-> "withdraw", req |-> r, at |-> request[r].idx,
                 user |-> request[r].submitter])

Overtake(d, yes) == overtaken' = IF yes THEN overtaken \cup {d} ELSE overtaken

Moved(c) == doc[txn[c].doc] # txn[c].read

\* The document is out: in the ledger, with the supplier, or good to pay.
Issue(d, r) ==
  /\ doc' = [doc EXCEPT ![d] = Issued(@)]
  /\ issued' = [issued EXCEPT ![d] = Min({@ + 1, 2})]
  /\ via' = [via EXCEPT ![d] = r]

--------------------------------------------------------------------------------
(* Submission.  A policy that matches parks the document.                     *)

SubmitToEngine(c) ==
  LET d == txn[c].doc
  IN  /\ Doing(c, "submit")
      /\ OpenIndex(d)
      /\ Len(request) < MaxRequests
      /\ \E p \in Policies :
           request' = Append(request, NewRequest(d, txn[c].user, p))
      /\ doc' = [doc EXCEPT ![d].status = "waiting", ![d].link = Len(request) + 1]
      /\ Overtake(d, Moved(c) /\ doc[d].status # "waiting")
      /\ End(c)
      /\ UNCHANGED <<issued, via>>

\* No policy matches: a claim waits for the handlers from before the engine, with
\* the approval_request_id it had; anything else is issued at once.
SubmitDirect(c) ==
  LET d == txn[c].doc
  IN  /\ Doing(c, "submit")
      /\ IF doc[d].kind = "claim"
           THEN /\ doc' = [doc EXCEPT ![d].status = "waiting"]
                /\ UNCHANGED <<issued, via>>
           ELSE Issue(d, Never)
      /\ Overtake(d, Moved(c))
      /\ End(c)
      /\ UNCHANGED request

--------------------------------------------------------------------------------
(* Decisions.                                                                 *)

\* Mutant: the last step but one is taken for the last.
IsLastEarly(r, next) == next >= Len(request[r].steps)

\* Mutant: the request goes on after its last step.
IsLastLate(r, next) == next > Len(request[r].steps) + 1

IsLast(r, next) == next > Len(request[r].steps)

\* Mutant: the document is issued whatever its status is.
AnyStatus(row) == row.status # "none"

\* What the posting and sending helpers allow when the engine calls them.
Ready(row) == row.status = "waiting"

\* recordDecision and, after the last step, finaliseApprovedDocument: a document
\* that has moved on is left alone.
Approve(c) ==
  LET r    == txn[c].req
      d    == request[r].doc
      next == txn[c].at + 1
      last == IsLast(r, next)
  IN  /\ Doing(c, "approve")
      /\ request' = [request EXCEPT
           ![r].steps[txn[c].at].status = "approved",
           ![r].steps[txn[c].at].by     = txn[c].user,
           ![r].idx    = next,
           ![r].status = IF last THEN "approved" ELSE @]
      /\ IF last /\ Ready(doc[d])
           THEN Issue(d, r)
           ELSE UNCHANGED <<doc, issued, via>>
      /\ Overtake(d, \/ request[r].status \in {"rejected", "cancelled"}
                     \/ Pending(r) /\ request[r].idx > next)
      /\ End(c)

\* One rejection ends the request, and the document follows it.
Reject(c) ==
  LET r == txn[c].req
      d == request[r].doc
  IN  /\ Doing(c, "reject")
      /\ request' = [request EXCEPT
           ![r].status = "rejected",
           ![r].steps  = [Skip(@) EXCEPT ![txn[c].at].status = "rejected",
                                         ![txn[c].at].by     = txn[c].user]]
      /\ doc' = [doc EXCEPT ![d] = Rejected(@)]
      /\ Overtake(d, ~Pending(r))
      /\ End(c)
      /\ UNCHANGED <<issued, via>>

Withdraw(c) ==
  LET r == txn[c].req
      d == request[r].doc
  IN  /\ Doing(c, "withdraw")
      /\ request' = [request EXCEPT ![r] = CancelRequest(@)]
      /\ doc' = [doc EXCEPT ![d] = Withdrawn(@)]
      /\ Overtake(d, ~Pending(r))
      /\ End(c)
      /\ UNCHANGED <<issued, via>>

--------------------------------------------------------------------------------
(* The documents' own handlers.                                               *)

\* A live request is cancelled with its document.
Cancel(c) ==
  LET d     == txn[c].doc
      r     == txn[c].read.link
      owned == r # Never /\ (doc[d].kind = "requisition" =>
                                txn[c].read.status = "waiting")
  IN  /\ Doing(c, "cancel")
      /\ request' = IF owned THEN [request EXCEPT ![r] = CancelRequest(@)]
                             ELSE request
      /\ doc' = [doc EXCEPT ![d] = Cancelled(@)]
      /\ Overtake(d, doc[d].link \notin {r, Never})
      /\ End(c)
      /\ UNCHANGED <<issued, via>>

\* Editing a rejected requisition or claim makes it a draft again.
Edit(c) ==
  LET d == txn[c].doc
  IN  /\ Doing(c, "edit")
      /\ doc' = [doc EXCEPT ![d].status = "draft"]
      /\ Overtake(d, Moved(c))
      /\ End(c)
      /\ UNCHANGED <<request, issued, via>>

\* An order is acknowledged by its supplier, sent or not.
Acknowledge(c) ==
  LET d == txn[c].doc
  IN  /\ Doing(c, "acknowledge")
      /\ doc' = [doc EXCEPT ![d].status = "acknowledged"]
      /\ Overtake(d, Moved(c))
      /\ End(c)
      /\ UNCHANGED <<request, issued, via>>

\* A claim approved or rejected, or a requisition rejected, without the engine.
Direct(c) ==
  LET d == txn[c].doc
  IN  /\ Doing(c, "grant") \/ Doing(c, "refuse")
      /\ IF txn[c].act = "grant"
           THEN Issue(d, Never)
           ELSE /\ doc' = [doc EXCEPT ![d].status = "rejected"]
                /\ UNCHANGED <<issued, via>>
      /\ Overtake(d, Moved(c))
      /\ End(c)
      /\ UNCHANGED request

Next ==
  \E c \in Calls :
    \/ BeginSubmit(c) \/ BeginCancel(c) \/ BeginEdit(c) \/ BeginAcknowledge(c)
    \/ BeginDirect(c) \/ BeginDecision(c) \/ BeginWithdraw(c)
    \/ SubmitToEngine(c) \/ SubmitDirect(c)
    \/ Approve(c) \/ Reject(c) \/ Withdraw(c)
    \/ Cancel(c) \/ Edit(c) \/ Acknowledge(c) \/ Direct(c)
    \/ Fail(c)

Spec == Init /\ [][Next]_vars

--------------------------------------------------------------------------------
(* Properties.  A document is out of their reach once a call has overwritten   *)
(* what another one had decided since it read: a rejection or withdrawal of a  *)
(* request that is decided by then, an approval of one that was rejected or    *)
(* withdrawn, a handler of the document on a row that has moved on.            *)

RowType == [kind : Kinds, link : Nat \cup {Never},
            status : {"draft", "waiting", "issued", "rejected", "cancelled",
                      "acknowledged"}]
StepType == [approvers : SUBSET Users, by : Users \cup {Never},
             status : {"pending", "approved", "rejected", "skipped"}]
RequestType == [doc : Docs, submitter : Users, idx : Nat, steps : Seq(StepType),
                status : {"pending", "approved", "rejected", "cancelled"}]
CallType ==
  [act : {"submit", "cancel", "edit", "acknowledge", "grant", "refuse"},
   doc : Docs, read : RowType, user : Users \cup {Never}]
  \cup [act : {"approve", "reject", "withdraw"}, req : Nat, at : Nat, user : Users]

\* Every variable keeps its type, and a pending request is at one of its steps.
TypeOK ==
  /\ doc \in [Docs -> RowType]
  /\ request \in Seq(RequestType)
  /\ \A r \in DOMAIN request :
       Pending(r) => request[r].idx \in DOMAIN request[r].steps
  /\ txn \in [Calls -> {Idle} \cup CallType]
  /\ issued \in [Docs -> 0 .. 2]
  /\ via \in [Docs -> DOMAIN request \cup {Never}]
  /\ overtaken \subseteq Docs

\* A document is posted, sent or approved at most once, though two approvers decide
\* its last step at the same time, its cancel races the decision, or it is
\* rejected, withdrawn and submitted again.
IssuedOnce == \A d \in Docs \ overtaken : issued[d] <= 1

\* What the engine has issued, it issued on the document's latest submission, and
\* each step of that was approved by one of its approvers who had not submitted it.
IssuedWithConsent ==
  \A d \in Docs \ overtaken : via[d] # Never =>
    LET req == request[via[d]]
    IN  /\ req.doc = d /\ req.status = "approved"
        /\ \A n \in DOMAIN req.steps :
             /\ req.steps[n].status = "approved"
             /\ req.steps[n].by \in req.steps[n].approvers \ {req.submitter}
        /\ \A r \in DOMAIN request : request[r].doc = d => r <= via[d]

\* The queue of approvals and the documents agree: a pending request is the one its
\* document waits for, and a bill, order or requisition that waits has a pending
\* request at a pending step, so that someone can decide it.
Waited(row) ==
  /\ row.link # Never
  /\ Pending(row.link)
  /\ LET req == request[row.link] IN req.steps[req.idx].status = "pending"

QueueTies ==
  /\ \A r \in DOMAIN request :
       Pending(r) /\ request[r].doc \notin overtaken =>
         LET row == doc[request[r].doc]
         IN  row.status = "waiting" /\ row.link = r
  /\ \A d \in Docs \ overtaken :
       doc[d].status = "waiting" /\ doc[d].kind # "claim" => Waited(doc[d])

\* A request that is decided or cancelled stays what it is, whoever decides or
\* cancels it at the same time.
OutcomeIsFinal ==
  [][\A r \in DOMAIN request :
       ~Pending(r) /\ request[r].doc \notin overtaken' =>
         request'[r].status = request[r].status]_vars

\* A document's phase, as far as no call has overtaken another one on it.
Phase(d) ==
  CASE d \in overtaken -> "overtaken"
    [] d \notin overtaken /\ doc[d].status = "waiting" -> "waiting"
    [] d \notin overtaken /\ doc[d].status \in {"draft", "rejected"} -> "open"
    [] d \notin overtaken /\ doc[d].status \in {"issued", "acknowledged"} -> "out"
    [] d \notin overtaken /\ doc[d].status = "cancelled" -> "cancelled"

\* The engine and the documents' own handlers together implement DocumentLife: what
\* is posted, sent or approved is never a draft again, and what is cancelled is never
\* issued, whichever two of them meet and whatever a late approver has still seen.
Life == INSTANCE DocumentLife WITH phase <- [d \in Docs |-> Phase(d)]
NoWayBack == Life!Spec
================================================================================
