---------------------------- MODULE ApprovalsProofs ----------------------------
(****************************************************************************)
(* Proofs about the approval engine for any number of documents, users,     *)
(* policies, requests and calls in flight: a document is issued once, with  *)
(* the consent of all its approvers, the queue agrees with the documents,   *)
(* and the whole implements DocumentLife.                                   *)
(****************************************************************************)
EXTENDS Approvals, SequenceTheorems, TLAPS

\* The calls of a document's own handlers, and those of a request's.
RowActs     == {"submit", "cancel", "edit", "acknowledge", "grant", "refuse"}
RequestActs == {"approve", "reject", "withdraw"}

\* The requests of a document.
Of(d) == {r \in DOMAIN request : request[r].doc = d}

\* Requests have a step at least, and are at one of them while they are pending.
RequestsInv ==
  \A r \in DOMAIN request : LET req == request[r] IN
    /\ req.steps # <<>>
    /\ req.idx >= 1
    /\ req.status = "pending" => req.idx \in DOMAIN req.steps

\* What links one row to another is there and leads back.
LinkInv == \A d \in Docs : doc[d].link # Never => doc[d].link \in Of(d)

\* What each handler has seen of the row it works on.
Taken(act, row) ==
  /\ act = "submit" => Submittable(row)
  /\ act = "cancel" => Cancellable(row)
  /\ act = "edit" => Editable(row)
  /\ act = "acknowledge" => Acknowledgeable(row)
  /\ act \in {"grant", "refuse"} => Decidable(row)
  /\ act = "grant" => row.kind = "claim"

\* A requisition has a link exactly while the engine owns it.
RowInv(row) == row.kind = "requisition" /\ row.link # Never => row.status = "waiting"

RowCallInv(call) ==
  /\ Taken(call.act, call.read)
  /\ call.act = "submit" => call.user \in Users
  /\ call.read.kind = doc[call.doc].kind
  /\ call.read.link # Never => call.read.link \in Of(call.doc)
  /\ call.doc \notin overtaken => RowInv(call.read)

\* A decision in flight is by an approver, on the current step or an earlier one.
RequestCallInv(call) ==
  LET req == request[call.req] IN
  /\ call.req \in DOMAIN request
  /\ call.at \in DOMAIN req.steps
  /\ call.act # "withdraw" =>
       call.user \in req.steps[call.at].approvers \ {req.submitter}
  /\ Pending(call.req) /\ req.doc \notin overtaken => call.at <= req.idx

CallsInv ==
  \A c \in Calls : txn[c] # Idle =>
    /\ txn[c].act \in RowActs => RowCallInv(txn[c])
    /\ txn[c].act \in RequestActs => RequestCallInv(txn[c])

--------------------------------------------------------------------------------
(* One document, as long as no call has overtaken another one on it.          *)

Agreed(req, n) ==
  /\ req.steps[n].status = "approved"
  /\ req.steps[n].by \in req.steps[n].approvers \ {req.submitter}

\* The steps before the current one are approved, the others undecided.
Halfway(req) ==
  \A n \in DOMAIN req.steps : IF n < req.idx THEN Agreed(req, n)
                                             ELSE req.steps[n].status = "pending"

AllAgreed(req) == \A n \in DOMAIN req.steps : Agreed(req, n)

\* A pending request is the document's latest, and the one that it waits for.
PendingInv(d) ==
  \A r \in Of(d) : Pending(r) =>
    /\ doc[d].status = "waiting" /\ doc[d].link = r
    /\ Halfway(request[r])
    /\ \A q \in Of(d) : q <= r

\* After its approval, the document is out for good.
ApprovedInv(d) ==
  \A r \in Of(d) : request[r].status = "approved" =>
    /\ doc[d].status \in {"issued", "acknowledged", "cancelled"}
    /\ AllAgreed(request[r])

WaitingInv(d) ==
  doc[d].status = "waiting" /\ doc[d].kind # "claim" =>
    doc[d].link # Never /\ Pending(doc[d].link)

IssuedInv(d) ==
  /\ doc[d].status \in {"draft", "waiting", "rejected"} =>
       issued[d] = 0 /\ via[d] = Never
  /\ issued[d] <= 1
  /\ via[d] # Never =>
       /\ via[d] \in Of(d)
       /\ request[via[d]].status = "approved"
       /\ \A r \in Of(d) : r <= via[d]

DocInv(d) ==
  RowInv(doc[d]) /\ PendingInv(d) /\ ApprovedInv(d) /\ WaitingInv(d) /\ IssuedInv(d)

DocsInv == \A d \in Docs \ overtaken : DocInv(d)

Inv == TypeOK /\ RequestsInv /\ LinkInv /\ CallsInv /\ DocsInv

--------------------------------------------------------------------------------
(* Sequences and the counter.                                                 *)

\* A function on an initial segment of the numbers is a sequence.
LEMMA FunctionIsSeq ==
  ASSUME NEW S, NEW n \in Nat, NEW f \in [1 .. n -> S]
  PROVE  f \in Seq(S) /\ Len(f) = n /\ DOMAIN f = 1 .. n
<1>1. f \in Seq(S)
  BY SeqDef
<1> QED BY <1>1, LenProperties

\* The counter of what was issued goes up by one, and stops at two.
LEMMA CountUp ==
  ASSUME NEW n \in 0 .. 2
  PROVE  /\ Min({n + 1, 2}) \in 0 .. 2
         /\ n = 0 => Min({n + 1, 2}) = 1
<1>1. \E x \in {n + 1, 2} : \A y \in {n + 1, 2} : x =< y
  BY n + 1 \in Int, n + 1 <= 2 \/ 2 <= n + 1
<1>2. Min({n + 1, 2}) \in {n + 1, 2} /\ \A y \in {n + 1, 2} : Min({n + 1, 2}) =< y
  BY <1>1 DEF Min
<1> QED BY <1>2

\* What the type of the requests says of each of them.
LEMMA RequestFacts ==
  ASSUME TypeOK
  PROVE  /\ Len(request) \in Nat
         /\ DOMAIN request = 1 .. Len(request)
         /\ \A r \in DOMAIN request :
              /\ request[r] \in RequestType
              /\ request[r].steps \in Seq(StepType)
              /\ Len(request[r].steps) \in Nat
              /\ DOMAIN request[r].steps = 1 .. Len(request[r].steps)
              /\ \A n \in DOMAIN request[r].steps : request[r].steps[n] \in StepType
<1>1. request \in Seq(RequestType)
  BY DEF TypeOK
<1>2. /\ Len(request) \in Nat
      /\ DOMAIN request = 1 .. Len(request)
      /\ \A r \in DOMAIN request : request[r] \in RequestType
  BY <1>1, LenProperties, ElementOfSeq
<1>3. \A r \in DOMAIN request : request[r].steps \in Seq(StepType)
  BY <1>2 DEF RequestType
<1>4. \A r \in DOMAIN request :
        /\ Len(request[r].steps) \in Nat
        /\ DOMAIN request[r].steps = 1 .. Len(request[r].steps)
        /\ \A n \in DOMAIN request[r].steps : request[r].steps[n] \in StepType
  BY <1>3, LenProperties, ElementOfSeq
<1> QED BY <1>2, <1>3, <1>4

\* A call in flight is one of a document's handlers or one on a request.
LEMMA CallFacts ==
  ASSUME TypeOK, NEW c \in Calls, txn[c] # Idle
  PROVE  \/ /\ txn[c].act \in RowActs /\ txn[c].doc \in Docs
            /\ txn[c].read \in RowType /\ txn[c].user \in Users \cup {Never}
         \/ /\ txn[c].act \in RequestActs /\ txn[c].req \in Nat
            /\ txn[c].at \in Nat /\ txn[c].user \in Users
BY DEF TypeOK, CallType, RowActs, RequestActs

\* Skipping keeps the number of the steps and their approvers, and touches those alone
\* that are pending.
LEMMA SkipFacts ==
  ASSUME NEW steps \in Seq(StepType)
  PROVE  /\ Skip(steps) \in Seq(StepType)
         /\ DOMAIN Skip(steps) = DOMAIN steps
         /\ \A n \in DOMAIN steps :
              /\ Skip(steps)[n].approvers = steps[n].approvers
              /\ steps[n].status # "pending" => Skip(steps)[n] = steps[n]
<1>1. /\ Len(steps) \in Nat /\ DOMAIN steps = 1 .. Len(steps)
      /\ \A n \in DOMAIN steps : steps[n] \in StepType
  BY LenProperties, ElementOfSeq
<1>2. \A n \in DOMAIN steps : [steps[n] EXCEPT !.status = "skipped"] \in StepType
  BY <1>1 DEF StepType
<1>3. Skip(steps) \in [1 .. Len(steps) -> StepType]
  BY <1>1, <1>2 DEF Skip
<1>4. Skip(steps) \in Seq(StepType) /\ DOMAIN Skip(steps) = DOMAIN steps
  BY <1>1, <1>3, FunctionIsSeq
<1>5. \A n \in DOMAIN steps :
        /\ Skip(steps)[n].approvers = steps[n].approvers
        /\ steps[n].status # "pending" => Skip(steps)[n] = steps[n]
  BY <1>1 DEF Skip, StepType
<1> QED BY <1>4, <1>5

--------------------------------------------------------------------------------
(* The two kinds of step: a call begins or fails, or it ends on one document.  *)

\* At the start every document is a draft without a request.
LEMMA InitInv == Init => Inv
<1> SUFFICES ASSUME Init PROVE Inv
  OBVIOUS
<1>1. /\ request = <<>> /\ DOMAIN request = {}
      /\ \A d \in Docs : /\ doc[d] \in RowType
                         /\ doc[d].status = "draft" /\ doc[d].link = Never
                         /\ issued[d] = 0 /\ via[d] = Never
  BY DEF Init, DraftRow, RowType
<1>2. TypeOK
  <2>1. request \in Seq(RequestType)
    BY <1>1, EmptySeq
  <2>2. doc \in [Docs -> RowType]
    BY <1>1 DEF Init
  <2> QED BY <1>1, <2>1, <2>2 DEF Init, TypeOK
<1>3. CallsInv
  BY DEF Init, CallsInv
<1>4. DocsInv
  BY <1>1 DEF DocsInv, DocInv, RowInv, PendingInv, ApprovedInv, WaitingInv, IssuedInv, Of
<1> QED BY <1>1, <1>2, <1>3, <1>4 DEF Inv, RequestsInv, LinkInv

\* A step that leaves the rows alone: at most one call begins, and it has read what
\* the invariant wants of it.
LEMMA RowsUnchanged ==
  ASSUME Inv, UNCHANGED <<doc, request, issued, via, overtaken>>,
         NEW c \in Calls, NEW call, txn' = [txn EXCEPT ![c] = call],
         \/ call = Idle
         \/ call \in CallType /\ call.act \in RowActs /\ RowCallInv(call)
         \/ call \in CallType /\ call.act \in RequestActs /\ RequestCallInv(call)
  PROVE  Inv'
<1>1. TypeOK'
  BY DEF Inv, TypeOK, Pending
<1>2. RequestsInv' /\ LinkInv' /\ DocsInv'
  BY DEF Inv, RequestsInv, LinkInv, DocsInv, DocInv, RowInv, PendingInv, ApprovedInv,
         WaitingInv, IssuedInv, Of, Pending
<1>3. CallsInv'
  <2>1. txn' \in [Calls -> {Idle} \cup CallType] /\ CallsInv
    BY <1>1 DEF TypeOK, Inv
  <2>2. \A b \in Calls : b # c => txn'[b] = txn[b]
    BY DEF Inv, TypeOK
  <2>3. txn'[c] = call
    BY DEF Inv, TypeOK
  <2>4. RowActs \cap RequestActs = {}
    BY DEF RowActs, RequestActs
  <2>5. ASSUME NEW b \in Calls, txn'[b] # Idle
        PROVE  (/\ txn[b].act \in RowActs => RowCallInv(txn[b])
                /\ txn[b].act \in RequestActs => RequestCallInv(txn[b]))'
    <3>1. CASE b = c
      BY <3>1, <2>3, <2>4, <2>5 DEF RowCallInv, RequestCallInv, Of, Pending
    <3>2. CASE b # c
      BY <3>2, <2>1, <2>2, <2>5 DEF CallsInv, RowCallInv, RequestCallInv, Of, Pending
    <3> QED BY <3>1, <3>2
  <2> QED BY <2>5 DEF CallsInv
<1> QED BY <1>1, <1>2, <1>3 DEF Inv

\* A handler of a document begins: it has read the row as it is.
LEMMA BeginsOnRow ==
  ASSUME Inv, NEW c \in Calls, NEW d \in Docs, NEW act \in RowActs,
         NEW user \in Users \cup {Never}, Taken(act, doc[d]), BeginOn(c, act, d, user),
         act = "submit" => user \in Users
  PROVE  Inv'
<1> DEFINE call == [act |-> act, doc |-> d, read |-> doc[d], user |-> user]
<1>1. doc[d] \in RowType
  BY DEF Inv, TypeOK
<1>2. call \in CallType
  BY <1>1 DEF CallType, RowActs
<1>3. RowCallInv(call)
  BY DEF RowCallInv, Inv, LinkInv, DocsInv, DocInv
<1>4. /\ UNCHANGED <<doc, request, issued, via, overtaken>>
      /\ txn' = [txn EXCEPT ![c] = call]
  BY DEF BeginOn, Begin
<1> QED BY <1>2, <1>3, <1>4, RowsUnchanged

\* The handlers of a document that begin: each has read a row that it takes.
LEMMA Begins ==
  ASSUME Inv, NEW c \in Calls,
         \/ BeginSubmit(c) \/ BeginCancel(c) \/ BeginEdit(c) \/ BeginAcknowledge(c)
         \/ BeginDirect(c)
  PROVE  Inv'
<1>1. CASE BeginSubmit(c)
  <2>1. PICK d \in Docs, u \in Users : Submittable(doc[d]) /\ BeginOn(c, "submit", d, u)
    BY <1>1 DEF BeginSubmit
  <2>2. Taken("submit", doc[d]) /\ "submit" \in RowActs
    BY <2>1 DEF Taken, RowActs
  <2> QED BY <2>1, <2>2, BeginsOnRow
<1>2. CASE BeginCancel(c)
  <2>1. PICK d \in Docs : Cancellable(doc[d]) /\ BeginOn(c, "cancel", d, Never)
    BY <1>2 DEF BeginCancel
  <2>2. Taken("cancel", doc[d]) /\ "cancel" \in RowActs
    BY <2>1 DEF Taken, RowActs
  <2> QED BY <2>1, <2>2, BeginsOnRow
<1>3. CASE BeginEdit(c)
  <2>1. PICK d \in Docs : Editable(doc[d]) /\ BeginOn(c, "edit", d, Never)
    BY <1>3 DEF BeginEdit
  <2>2. Taken("edit", doc[d]) /\ "edit" \in RowActs
    BY <2>1 DEF Taken, RowActs
  <2> QED BY <2>1, <2>2, BeginsOnRow
<1>4. CASE BeginAcknowledge(c)
  <2>1. PICK d \in Docs : Acknowledgeable(doc[d]) /\ BeginOn(c, "acknowledge", d, Never)
    BY <1>4 DEF BeginAcknowledge
  <2>2. Taken("acknowledge", doc[d]) /\ "acknowledge" \in RowActs
    BY <2>1 DEF Taken, RowActs
  <2> QED BY <2>1, <2>2, BeginsOnRow
<1>5. CASE BeginDirect(c)
  <2>1. PICK d \in Docs, act \in {"grant", "refuse"} :
          /\ Decidable(doc[d])
          /\ act = "grant" => doc[d].kind = "claim"
          /\ BeginOn(c, act, d, Never)
    BY <1>5 DEF BeginDirect
  <2>2. Taken(act, doc[d]) /\ act \in RowActs
    BY <2>1 DEF Taken, RowActs
  <2> QED BY <2>1, <2>2, BeginsOnRow
<1> QED BY <1>1, <1>2, <1>3, <1>4, <1>5

\* A decision or a withdrawal begins, on a request that is pending.
LEMMA BeginsOnRequest ==
  ASSUME Inv, NEW c \in Calls, BeginDecision(c) \/ BeginWithdraw(c)
  PROVE  Inv'
<1>1. /\ \A r \in DOMAIN request : request[r] \in RequestType
      /\ DOMAIN request \subseteq Nat
      /\ \A r \in DOMAIN request : Pending(r) => request[r].idx \in DOMAIN request[r].steps
      /\ \A r \in DOMAIN request : DOMAIN request[r].steps \subseteq Nat
  BY RequestFacts DEF Inv, TypeOK, Pending
<1>2. CASE BeginDecision(c)
  <2>1. PICK r \in DOMAIN request, u \in Users, act \in {"approve", "reject"} :
          /\ Pending(r)
          /\ u # request[r].submitter
          /\ u \in request[r].steps[request[r].idx].approvers
          /\ Begin(c, [act |-> act, req |-> r, at |-> request[r].idx, user |-> u])
    BY <1>2 DEF BeginDecision
  <2> DEFINE call == [act |-> act, req |-> r, at |-> request[r].idx, user |-> u]
  <2>2. call \in CallType /\ call.act \in RequestActs
    BY <1>1, <2>1 DEF CallType, RequestActs
  <2>3. RequestCallInv(call)
    BY <1>1, <2>1 DEF RequestCallInv
  <2>4. /\ UNCHANGED <<doc, request, issued, via, overtaken>>
        /\ txn' = [txn EXCEPT ![c] = call]
    BY <2>1 DEF Begin
  <2> QED BY <2>2, <2>3, <2>4, RowsUnchanged
<1>3. CASE BeginWithdraw(c)
  <2>1. PICK r \in DOMAIN request :
          /\ Pending(r)
          /\ Begin(c, [act |-> "withdraw", req |-> r, at |-> request[r].idx,
                       user |-> request[r].submitter])
    BY <1>3 DEF BeginWithdraw
  <2> DEFINE call == [act |-> "withdraw", req |-> r, at |-> request[r].idx,
                      user |-> request[r].submitter]
  <2>2. call \in CallType /\ call.act \in RequestActs
    BY <1>1, <2>1 DEF CallType, RequestActs, RequestType
  <2>3. RequestCallInv(call)
    BY <1>1, <2>1 DEF RequestCallInv
  <2>4. /\ UNCHANGED <<doc, request, issued, via, overtaken>>
        /\ txn' = [txn EXCEPT ![c] = call]
    BY <2>1 DEF Begin
  <2> QED BY <2>2, <2>3, <2>4, RowsUnchanged
<1> QED BY <1>2, <1>3

\* A call that fails leaves nothing behind.
LEMMA Fails ==
  ASSUME Inv, NEW c \in Calls, Fail(c)
  PROVE  Inv'
BY RowsUnchanged DEF Fail, End

--------------------------------------------------------------------------------
\* What another call may rely on when one ends: a request stays with its document,
\* its submitter and the approvers of its steps, and is not pending again.
Kept(old, new) ==
  /\ new.doc = old.doc /\ new.submitter = old.submitter
  /\ DOMAIN new.steps = DOMAIN old.steps
  /\ \A n \in DOMAIN old.steps : new.steps[n].approvers = old.steps[n].approvers
  /\ new.doc \notin overtaken' /\ new.status = "pending" =>
       old.status = "pending" /\ old.idx <= new.idx

\* A step on one document and its requests.
OnlyOn(d) ==
  /\ \A e \in Docs \ {d} :
       doc'[e] = doc[e] /\ issued'[e] = issued[e] /\ via'[e] = via[e]
  /\ doc'[d].kind = doc[d].kind
  /\ overtaken \subseteq overtaken' /\ overtaken' \subseteq overtaken \cup {d}
  /\ DOMAIN request \subseteq DOMAIN request'
  /\ \A r \in DOMAIN request' \ DOMAIN request : request'[r].doc = d
  /\ \A r \in DOMAIN request :
       IF request[r].doc = d THEN Kept(request[r], request'[r])
                             ELSE request'[r] = request[r]

\* What such a step leaves alone keeps the invariant.
LEMMA Elsewhere ==
  ASSUME Inv, NEW d \in Docs, OnlyOn(d), NEW e \in Docs, e # d, e \notin overtaken'
  PROVE  DocInv(e)'
<1>1. e \notin overtaken /\ DocInv(e) /\ LinkInv
  BY DEF OnlyOn, Inv, DocsInv
<1>2. doc'[e] = doc[e] /\ issued'[e] = issued[e] /\ via'[e] = via[e]
  BY DEF OnlyOn
<1>3. Of(e)' = Of(e) /\ \A r \in Of(e) : request'[r] = request[r]
  BY DEF OnlyOn, Of, Kept
<1> QED BY <1>1, <1>2, <1>3
        DEF DocInv, RowInv, PendingInv, ApprovedInv, WaitingInv, IssuedInv, Pending, LinkInv

\* So the end of a call keeps the invariant, if its own document does.
LEMMA CallEnds ==
  ASSUME Inv, NEW c \in Calls, NEW d \in Docs, End(c), OnlyOn(d), TypeOK', RequestsInv',
         doc'[d].link # Never => doc'[d].link \in Of(d)',
         d \notin overtaken' => DocInv(d)'
  PROVE  Inv'
<1>1. DocsInv'
  BY Elsewhere DEF DocsInv
<1>2. \A e \in Docs : Of(e) \subseteq Of(e)'
  BY DEF OnlyOn, Of, Kept
<1>3. \A e \in Docs : e # d => doc'[e] = doc[e]
  BY DEF OnlyOn
<1>4. LinkInv'
  BY <1>2, <1>3 DEF LinkInv, Inv
<1>5. CallsInv'
  <2> SUFFICES ASSUME NEW b \in Calls, txn'[b] # Idle
               PROVE  (/\ txn[b].act \in RowActs => RowCallInv(txn[b])
                       /\ txn[b].act \in RequestActs => RequestCallInv(txn[b]))'
    BY DEF CallsInv
  <2>1. b # c /\ txn'[b] = txn[b] /\ txn[b] # Idle
    BY DEF End, Inv, TypeOK
  <2>2. overtaken \subseteq overtaken'
    BY DEF OnlyOn
  <2>3. ASSUME txn[b].act \in RowActs
        PROVE  RowCallInv(txn[b])'
    <3>1. RowCallInv(txn[b]) /\ txn[b].doc \in Docs
      BY <2>1, <2>3, CallFacts DEF Inv, CallsInv, RowActs, RequestActs
    <3>2. doc'[txn[b].doc].kind = doc[txn[b].doc].kind
      BY <3>1, <1>3 DEF OnlyOn
    <3> QED BY <2>1, <2>2, <3>1, <3>2, <1>2 DEF RowCallInv
  <2>4. ASSUME txn[b].act \in RequestActs
        PROVE  RequestCallInv(txn[b])'
    <3>1. RequestCallInv(txn[b])
      BY <2>1, <2>4 DEF Inv, CallsInv
    <3> DEFINE r == txn[b].req
    <3>2. r \in DOMAIN request /\ r \in DOMAIN request'
      BY <3>1 DEF RequestCallInv, OnlyOn
    <3>3. /\ request[r].idx \in Nat /\ request'[r].idx \in Nat
          /\ txn[b].at \in Nat
      <4>1. request[r] \in RequestType /\ DOMAIN request[r].steps \subseteq Nat
        BY <3>2, RequestFacts DEF Inv
      <4>2. request'[r] \in RequestType
        <5>1. request' \in Seq(RequestType)
          BY DEF TypeOK
        <5> QED BY <5>1, <3>2, LenProperties, ElementOfSeq
      <4> QED BY <4>1, <4>2, <3>1 DEF RequestType, RequestCallInv
    <3>4. CASE request[r].doc # d
      <4>1. request'[r] = request[r]
        BY <3>2, <3>4 DEF OnlyOn
      <4>2. request'[r].status = request[r].status /\ request'[r].idx = request[r].idx
            /\ request'[r].doc = request[r].doc /\ request'[r].steps = request[r].steps
            /\ request'[r].submitter = request[r].submitter
        BY <4>1
      <4> QED BY <2>1, <2>2, <3>1, <3>2, <4>2 DEF RequestCallInv, Pending
    <3>5. CASE request[r].doc = d
      <4>1. Kept(request[r], request'[r])
        BY <3>2, <3>5 DEF OnlyOn
      <4> QED BY <2>1, <2>2, <3>1, <3>2, <3>3, <4>1 DEF RequestCallInv, Pending, Kept
    <3> QED BY <3>4, <3>5
  <2> QED BY <2>1, <2>3, <2>4 DEF RowActs, RequestActs
<1> QED BY <1>1, <1>4, <1>5 DEF Inv

--------------------------------------------------------------------------------
(* The handlers that write the document alone.                                *)

\* What a handler of a document knows when it writes.
LEMMA RowCall ==
  ASSUME Inv, NEW c \in Calls, txn[c] # Idle, txn[c].act \in RowActs
  PROVE  /\ txn[c].doc \in Docs /\ txn[c].user \in Users \cup {Never}
         /\ doc[txn[c].doc] \in RowType /\ txn[c].read \in RowType
         /\ issued[txn[c].doc] \in 0 .. 2
         /\ RowCallInv(txn[c])
         /\ txn[c].doc \notin overtaken => DocInv(txn[c].doc)
<1>1. txn[c].doc \in Docs /\ txn[c].read \in RowType /\ txn[c].user \in Users \cup {Never}
  BY CallFacts DEF Inv, RowActs, RequestActs
<1> QED BY <1>1 DEF Inv, CallsInv, DocsInv, TypeOK

\* A document that does not wait for the engine has no pending request, and one that was
\* not issued has no approved one.
LEMMA NothingOpen ==
  ASSUME Inv, NEW d \in Docs, DocInv(d)
  PROVE  /\ doc[d].status # "waiting" \/ doc[d].link = Never =>
              \A r \in Of(d) : ~Pending(r)
         /\ doc[d].status \in {"draft", "waiting", "rejected"} =>
              \A r \in Of(d) : request[r].status # "approved"
<1>1. Of(d) \subseteq Nat /\ Never \notin Of(d)
  BY RequestFacts, ApprovalAssumption DEF Inv, Of
<1> QED BY <1>1 DEF DocInv, PendingInv, ApprovedInv

\* A handler that writes its document alone keeps the invariant, if it either overtakes
\* another call or keeps what is said of the document.
LEMMA WritesRow ==
  ASSUME Inv, NEW c \in Calls, End(c), NEW d \in Docs, UNCHANGED request,
         NEW row \in RowType, doc' = [doc EXCEPT ![d] = row],
         row.kind = doc[d].kind, row.link \in {Never, doc[d].link},
         \/ UNCHANGED <<issued, via>>
         \/ /\ issued' = [issued EXCEPT ![d] = Min({@ + 1, 2})]
            /\ via' = [via EXCEPT ![d] = Never],
         NEW yes, Overtake(d, yes),
         ~yes /\ d \notin overtaken => DocInv(d)'
  PROVE  Inv'
<1>0. issued[d] \in 0 .. 2 /\ Min({issued[d] + 1, 2}) \in 0 .. 2
  BY CountUp DEF Inv, TypeOK
<1>1. /\ overtaken' = IF yes THEN overtaken \cup {d} ELSE overtaken
      /\ TypeOK /\ RequestsInv /\ LinkInv
  BY DEF Overtake, Inv
<1>2. issued' \in [Docs -> 0 .. 2] /\ via' \in [Docs -> DOMAIN request' \cup {Never}]
      /\ \A e \in Docs \ {d} : issued'[e] = issued[e] /\ via'[e] = via[e]
  BY <1>0, <1>1 DEF TypeOK
<1>3. TypeOK'
  <2>1. doc' \in [Docs -> RowType]
    BY <1>1 DEF TypeOK
  <2>2. txn' \in [Calls -> {Idle} \cup CallType]
    BY <1>1 DEF TypeOK, End
  <2> QED BY <1>1, <1>2, <2>1, <2>2 DEF TypeOK, Pending
<1>4. RequestsInv'
  BY <1>1 DEF RequestsInv
<1>5. doc[d] \in RowType /\ doc'[d] = row /\ \A e \in Docs \ {d} : doc'[e] = doc[e]
  BY <1>1 DEF TypeOK
<1>6. OnlyOn(d)
  <2>1. \A r \in DOMAIN request : request[r].idx \in Nat
    BY <1>1, RequestFacts DEF RequestType
  <2>2. \A r \in DOMAIN request : Kept(request[r], request'[r])
    BY <2>1 DEF Kept
  <2> QED BY <1>1, <1>2, <1>5, <2>2 DEF OnlyOn
<1>7. doc'[d].link # Never => doc'[d].link \in Of(d)'
  BY <1>1, <1>5 DEF LinkInv, Of
<1> QED BY <1>1, <1>3, <1>4, <1>6, <1>7, CallEnds

\* A submission without a policy issues a draft that was never issued, or makes a claim
\* wait.
LEMMA SubmitsDirect ==
  ASSUME Inv, NEW c \in Calls, SubmitDirect(c)
  PROVE  Inv'
<1>0. txn[c] # Idle /\ txn[c].act = "submit" /\ txn[c].act \in RowActs
  BY DEF SubmitDirect, Doing, RowActs
<1>1. PICK d \in Docs : d = txn[c].doc
  BY <1>0, RowCall
<1>2. /\ d \in Docs /\ doc[d] \in RowType /\ issued[d] \in 0 .. 2
      /\ d \notin overtaken => DocInv(d)
      /\ Taken("submit", txn[c].read)
  BY <1>1, <1>0, RowCall DEF RowCallInv
<1>3. /\ End(c) /\ UNCHANGED request /\ Overtake(d, Moved(c))
      /\ DOMAIN doc = Docs /\ DOMAIN issued = Docs /\ DOMAIN via = Docs
  BY <1>1 DEF SubmitDirect, Inv, TypeOK
<1>4. ~Moved(c) => Submittable(doc[d])
  BY <1>1, <1>2 DEF Moved, Taken
<1>5. d \notin overtaken /\ ~Moved(c) =>
        /\ \A r \in Of(d) : ~Pending(r) /\ request[r].status # "approved"
        /\ issued[d] = 0 /\ via[d] = Never
        /\ doc[d].status = "draft"
  BY <1>2, <1>4, NothingOpen DEF Submittable, DocInv, IssuedInv
<1>6. Of(d)' = Of(d)
  BY <1>3 DEF Of
<1>7. CASE doc[d].kind = "claim"
  <2> DEFINE row == [doc[d] EXCEPT !.status = "waiting"]
  <2>1. doc' = [doc EXCEPT ![d] = row] /\ UNCHANGED <<issued, via>>
    BY <1>1, <1>7 DEF SubmitDirect
  <2>2. row \in RowType /\ row.kind = "claim" /\ row.link = doc[d].link
        /\ row.status = "waiting"
    BY <1>2, <1>7 DEF RowType
  <2> HIDE DEF row
  <2>3. doc'[d] = row
    BY <1>2, <1>3, <2>1
  <2>4. ASSUME ~Moved(c), d \notin overtaken PROVE DocInv(d)'
    BY <1>3, <1>5, <1>6, <2>1, <2>2, <2>3, <2>4
       DEF DocInv, RowInv, PendingInv, ApprovedInv, WaitingInv, IssuedInv, Pending
  <2> QED BY <1>2, <1>3, <1>7, <2>1, <2>2, <2>4, WritesRow
<1>8. CASE doc[d].kind # "claim"
  <2> DEFINE row == Issued(doc[d])
  <2>1. /\ doc' = [doc EXCEPT ![d] = row]
        /\ issued' = [issued EXCEPT ![d] = Min({@ + 1, 2})]
        /\ via' = [via EXCEPT ![d] = Never]
    BY <1>1, <1>8 DEF SubmitDirect, Issue
  <2>2. /\ row \in RowType /\ row.kind = doc[d].kind
        /\ row.status = "issued" /\ row.link \in {Never, doc[d].link}
        /\ row.kind = "requisition" => row.link = Never
    BY <1>2 DEF RowType, Issued
  <2> HIDE DEF row
  <2>3. /\ doc'[d] = row /\ via'[d] = Never
        /\ issued[d] = 0 => issued'[d] = 1
    BY <1>2, <1>3, <2>1, CountUp
  <2>4. ASSUME ~Moved(c), d \notin overtaken PROVE DocInv(d)'
    BY <1>3, <1>5, <1>6, <2>2, <2>3, <2>4
       DEF DocInv, RowInv, PendingInv, ApprovedInv, WaitingInv, IssuedInv, Pending
  <2> QED BY <1>2, <1>3, <2>1, <2>2, <2>4, WritesRow
<1> QED BY <1>7, <1>8

\* An edit makes a draft of what was rejected.
LEMMA Edits ==
  ASSUME Inv, NEW c \in Calls, Edit(c)
  PROVE  Inv'
<1>0. txn[c] # Idle /\ txn[c].act = "edit" /\ txn[c].act \in RowActs
  BY DEF Edit, Doing, RowActs
<1>1. PICK d \in Docs : d = txn[c].doc
  BY <1>0, RowCall
<1>2. /\ doc[d] \in RowType
      /\ d \notin overtaken => DocInv(d)
      /\ Taken("edit", txn[c].read)
  BY <1>0, <1>1, RowCall DEF RowCallInv
<1>3. /\ End(c) /\ UNCHANGED <<request, issued, via>> /\ Overtake(d, Moved(c))
      /\ DOMAIN doc = Docs /\ Of(d)' = Of(d)
  BY <1>1 DEF Edit, Inv, TypeOK, Of
<1> DEFINE row == [doc[d] EXCEPT !.status = "draft"]
<1>4. doc' = [doc EXCEPT ![d] = row]
  BY <1>1 DEF Edit
<1>5. row \in RowType /\ row.kind = doc[d].kind /\ row.link = doc[d].link
      /\ row.status = "draft"
  BY <1>2 DEF RowType
<1> HIDE DEF row
<1>6. doc'[d] = row
  BY <1>3, <1>4
<1>7. ASSUME ~Moved(c), d \notin overtaken PROVE DocInv(d)'
  <2>1. Editable(doc[d])
    BY <1>1, <1>2, <1>7 DEF Moved, Taken
  <2>2. /\ \A r \in Of(d) : ~Pending(r) /\ request[r].status # "approved"
        /\ issued[d] = 0 /\ via[d] = Never
        /\ doc[d].kind = "requisition" => doc[d].link = Never
    BY <1>2, <1>7, <2>1, NothingOpen DEF Editable, DocInv, IssuedInv, RowInv
  <2> QED BY <1>3, <1>5, <1>6, <2>2
             DEF DocInv, RowInv, PendingInv, ApprovedInv, WaitingInv, IssuedInv, Pending
<1> QED BY <1>3, <1>4, <1>5, <1>7, WritesRow

\* An acknowledgement is of an order that the engine has nothing pending on.
LEMMA Acknowledges ==
  ASSUME Inv, NEW c \in Calls, Acknowledge(c)
  PROVE  Inv'
<1>0. txn[c] # Idle /\ txn[c].act = "acknowledge" /\ txn[c].act \in RowActs
  BY DEF Acknowledge, Doing, RowActs
<1>1. PICK d \in Docs : d = txn[c].doc
  BY <1>0, RowCall
<1>2. /\ doc[d] \in RowType
      /\ d \notin overtaken => DocInv(d)
      /\ Taken("acknowledge", txn[c].read)
  BY <1>0, <1>1, RowCall DEF RowCallInv
<1>3. /\ End(c) /\ UNCHANGED <<request, issued, via>> /\ Overtake(d, Moved(c))
      /\ DOMAIN doc = Docs /\ Of(d)' = Of(d)
  BY <1>1 DEF Acknowledge, Inv, TypeOK, Of
<1> DEFINE row == [doc[d] EXCEPT !.status = "acknowledged"]
<1>4. doc' = [doc EXCEPT ![d] = row]
  BY <1>1 DEF Acknowledge
<1>5. row \in RowType /\ row.kind = doc[d].kind /\ row.link = doc[d].link
      /\ row.status = "acknowledged"
  BY <1>2 DEF RowType
<1> HIDE DEF row
<1>6. doc'[d] = row
  BY <1>3, <1>4
<1>7. ASSUME ~Moved(c), d \notin overtaken PROVE DocInv(d)'
  <2>1. Acknowledgeable(doc[d])
    BY <1>1, <1>2, <1>7 DEF Moved, Taken
  <2>2. DocInv(d) /\ doc[d].kind = "order" /\ \A r \in Of(d) : ~Pending(r)
    BY <1>2, <1>7, <2>1, NothingOpen DEF Acknowledgeable
  <2> QED BY <1>3, <1>5, <1>6, <2>2
             DEF DocInv, RowInv, PendingInv, ApprovedInv, WaitingInv, IssuedInv, Pending
<1> QED BY <1>3, <1>4, <1>5, <1>7, WritesRow

\* A decision without the engine is on a document that was never issued and that the
\* engine has nothing pending on.
LEMMA DecidesDirect ==
  ASSUME Inv, NEW c \in Calls, Direct(c)
  PROVE  Inv'
<1>0. txn[c] # Idle /\ txn[c].act \in {"grant", "refuse"} /\ txn[c].act \in RowActs
  BY DEF Direct, Doing, RowActs
<1>1. PICK d \in Docs : d = txn[c].doc
  BY <1>0, RowCall
<1>2. /\ doc[d] \in RowType /\ issued[d] \in 0 .. 2
      /\ d \notin overtaken => DocInv(d)
      /\ Decidable(txn[c].read)
      /\ txn[c].act = "grant" => txn[c].read.kind = "claim"
      /\ txn[c].read.kind = doc[d].kind
  BY <1>0, <1>1, RowCall DEF RowCallInv, Taken
<1>3. /\ End(c) /\ UNCHANGED request /\ Overtake(d, Moved(c)) /\ Of(d)' = Of(d)
      /\ DOMAIN doc = Docs /\ DOMAIN issued = Docs /\ DOMAIN via = Docs
  BY <1>1 DEF Direct, Inv, TypeOK, Of
<1>4. ASSUME ~Moved(c), d \notin overtaken
      PROVE  /\ doc[d].link = Never /\ doc[d].kind \in {"claim", "requisition"}
             /\ \A r \in Of(d) : ~Pending(r) /\ request[r].status # "approved"
             /\ issued[d] = 0 /\ via[d] = Never
  <2>1. Decidable(doc[d]) /\ DocInv(d)
    BY <1>1, <1>2, <1>4 DEF Moved
  <2> QED BY <2>1, NothingOpen DEF Decidable, DocInv, IssuedInv
<1>5. CASE txn[c].act = "grant"
  <2> DEFINE row == Issued(doc[d])
  <2>1. /\ doc' = [doc EXCEPT ![d] = row]
        /\ issued' = [issued EXCEPT ![d] = Min({@ + 1, 2})]
        /\ via' = [via EXCEPT ![d] = Never]
    BY <1>1, <1>5 DEF Direct, Issue
  <2>2. /\ row \in RowType /\ row.kind = doc[d].kind /\ row.kind = "claim"
        /\ row.status = "issued" /\ row.link = doc[d].link
    BY <1>2, <1>5 DEF RowType, Issued
  <2> HIDE DEF row
  <2>3. /\ doc'[d] = row /\ via'[d] = Never
        /\ issued[d] = 0 => issued'[d] = 1
    BY <1>2, <1>3, <2>1, CountUp
  <2>4. ASSUME ~Moved(c), d \notin overtaken PROVE DocInv(d)'
    BY <1>3, <1>4, <2>2, <2>3, <2>4
       DEF DocInv, RowInv, PendingInv, ApprovedInv, WaitingInv, IssuedInv, Pending
  <2> QED BY <1>3, <2>1, <2>2, <2>4, WritesRow
<1>6. CASE txn[c].act = "refuse"
  <2> DEFINE row == [doc[d] EXCEPT !.status = "rejected"]
  <2>1. doc' = [doc EXCEPT ![d] = row] /\ UNCHANGED <<issued, via>>
    BY <1>1, <1>6 DEF Direct
  <2>2. /\ row \in RowType /\ row.kind = doc[d].kind
        /\ row.status = "rejected" /\ row.link = doc[d].link
    BY <1>2 DEF RowType
  <2> HIDE DEF row
  <2>3. doc'[d] = row
    BY <1>3, <2>1
  <2>4. ASSUME ~Moved(c), d \notin overtaken PROVE DocInv(d)'
    BY <1>3, <1>4, <2>1, <2>2, <2>3, <2>4
       DEF DocInv, RowInv, PendingInv, ApprovedInv, WaitingInv, IssuedInv, Pending
  <2> QED BY <1>3, <2>1, <2>2, <2>4, WritesRow
<1> QED BY <1>0, <1>5, <1>6

--------------------------------------------------------------------------------
(* A submission that parks the document.                                      *)

\* A new request is at the first of its steps, all of them undecided.
LEMMA NewRequestFacts ==
  ASSUME NEW d \in Docs, NEW user \in Users, NEW p \in Policies
  PROVE  LET new == NewRequest(d, user, p) IN
         /\ new \in RequestType /\ new.doc = d /\ new.status = "pending" /\ new.idx = 1
         /\ new.steps # <<>> /\ 1 \in DOMAIN new.steps
         /\ Halfway(new)
<1>1. p \in Seq(SUBSET Users) /\ p # <<>>
  BY ApprovalAssumption
<1>2. /\ Len(p) \in Nat \ {0} /\ DOMAIN p = 1 .. Len(p)
      /\ \A n \in DOMAIN p : p[n] \in SUBSET Users
  BY <1>1, EmptySeq, LenProperties, ElementOfSeq
<1> DEFINE new == NewRequest(d, user, p)
<1>3. new.steps = [n \in 1 .. Len(p) |-> Step(p[n])]
  BY <1>2 DEF NewRequest
<1>4. \A n \in 1 .. Len(p) : Step(p[n]) \in StepType
  BY <1>2 DEF Step, StepType
<1>5. new.steps \in Seq(StepType) /\ Len(new.steps) = Len(p)
      /\ DOMAIN new.steps = 1 .. Len(p)
  BY <1>2, <1>3, <1>4, FunctionIsSeq
<1>6. new \in RequestType
  BY <1>5 DEF NewRequest, RequestType
<1>7. new.steps # <<>> /\ 1 \in DOMAIN new.steps
  BY <1>2, <1>5, EmptySeq
<1>8. \A n \in DOMAIN new.steps : new.steps[n].status = "pending" /\ n >= 1
  BY <1>2, <1>3 DEF Step
<1>9. new.doc = d /\ new.status = "pending" /\ new.idx = 1
  BY DEF NewRequest
<1>10. Halfway(new)
  BY <1>2, <1>5, <1>8, <1>9 DEF Halfway
<1> QED BY <1>6, <1>7, <1>9, <1>10

\* A submission opens a request on a document that has none open, and that was never
\* issued.
LEMMA SubmitsToEngine ==
  ASSUME Inv, NEW c \in Calls, SubmitToEngine(c)
  PROVE  Inv'
<1>0. txn[c] # Idle /\ txn[c].act = "submit" /\ txn[c].act \in RowActs
  BY DEF SubmitToEngine, Doing, RowActs
<1>1. PICK d \in Docs : d = txn[c].doc
  BY <1>0, RowCall
<1>2. /\ doc[d] \in RowType /\ txn[c].user \in Users
      /\ d \notin overtaken => DocInv(d)
      /\ Submittable(txn[c].read)
  BY <1>0, <1>1, RowCall DEF RowCallInv, Taken
<1>3. PICK p \in Policies : request' = Append(request, NewRequest(d, txn[c].user, p))
  BY <1>1 DEF SubmitToEngine
<1> DEFINE new == NewRequest(d, txn[c].user, p)
<1>4. /\ new \in RequestType /\ new.doc = d /\ new.status = "pending" /\ new.idx = 1
      /\ new.steps # <<>> /\ 1 \in DOMAIN new.steps /\ Halfway(new)
  BY <1>2, NewRequestFacts
<1>5. PICK r \in Nat : r = Len(request) + 1
  BY RequestFacts DEF Inv
<1> HIDE DEF new
<1>6. /\ request' \in Seq(RequestType)
      /\ DOMAIN request' = DOMAIN request \cup {r} /\ r \notin DOMAIN request
      /\ \A q \in DOMAIN request : q < r /\ request'[q] = request[q]
      /\ request'[r] = new
  <2>1. request \in Seq(RequestType) /\ DOMAIN request = 1 .. Len(request)
        /\ Len(request) \in Nat
    BY RequestFacts DEF Inv, TypeOK
  <2>2. /\ request' \in Seq(RequestType) /\ Len(request') = Len(request) + 1
        /\ \A q \in 1 .. Len(request) : request'[q] = request[q]
        /\ request'[Len(request) + 1] = new
    BY <1>3, <1>4, <2>1 DEF new
  <2>3. DOMAIN request' = 1 .. Len(request) + 1
    BY <2>2, LenProperties
  <2> QED BY <1>5, <2>1, <2>2, <2>3
<1>7. /\ End(c) /\ UNCHANGED <<issued, via>>
      /\ doc' = [doc EXCEPT ![d].status = "waiting", ![d].link = r]
      /\ \A q \in Of(d) : ~Pending(q)
      /\ Overtake(d, Moved(c) /\ doc[d].status # "waiting")
  BY <1>1, <1>5 DEF SubmitToEngine, OpenIndex, Of
<1>8. doc'[d] \in RowType /\ doc'[d].kind = doc[d].kind /\ doc'[d].status = "waiting"
      /\ doc'[d].link = r
      /\ \A e \in Docs \ {d} : doc'[e] = doc[e]
      /\ doc' \in [Docs -> RowType]
  BY <1>2, <1>7 DEF RowType, Inv, TypeOK
<1>9. TypeOK'
  <2>1. txn' \in [Calls -> {Idle} \cup CallType]
    BY <1>7 DEF Inv, TypeOK, End
  <2>2. \A q \in DOMAIN request' :
          request'[q].status = "pending" => request'[q].idx \in DOMAIN request'[q].steps
    BY <1>4, <1>6 DEF Inv, TypeOK, Pending
  <2>3. overtaken' \subseteq Docs
    BY <1>7 DEF Overtake, Inv, TypeOK
  <2> QED BY <1>6, <1>7, <1>8, <2>1, <2>2, <2>3 DEF Inv, TypeOK, Pending
<1>10. RequestsInv'
  BY <1>4, <1>6 DEF Inv, RequestsInv
<1>11. Of(d)' = Of(d) \cup {r}
  BY <1>4, <1>6 DEF Of
<1>12. OnlyOn(d)
  <2>1. \A q \in DOMAIN request : request[q].idx \in Nat
    BY RequestFacts DEF Inv, RequestType
  <2>2. \A q \in DOMAIN request : Kept(request[q], request'[q])
    BY <1>6, <1>7, <2>1 DEF Kept, Overtake
  <2> QED BY <1>4, <1>6, <1>7, <1>8, <2>2 DEF OnlyOn, Overtake
<1>13. ASSUME d \notin overtaken' PROVE DocInv(d)'
  <2>1. d \notin overtaken /\ DocInv(d)
    BY <1>2, <1>7, <1>13 DEF Overtake
  <2>2. doc[d].status \in {"draft", "waiting"}
    BY <1>1, <1>2, <1>7, <1>13 DEF Overtake, Moved, Submittable
  <2>3. /\ \A q \in Of(d) : request[q].status # "approved"
        /\ issued'[d] = 0 /\ via'[d] = Never
    BY <1>7, <2>1, <2>2, NothingOpen DEF DocInv, IssuedInv
  <2>4. \A q \in Of(d) : q <= r /\ request'[q] = request[q]
    BY <1>6, RequestFacts DEF Of, Inv
  <2>5. RowInv(doc[d])' /\ WaitingInv(d)' /\ IssuedInv(d)'
    BY <1>4, <1>5, <1>6, <1>8, <2>3, ApprovalAssumption
       DEF RowInv, WaitingInv, IssuedInv, Pending
  <2>6. PendingInv(d)'
    BY <1>4, <1>6, <1>7, <1>8, <1>11, <2>4 DEF PendingInv, Pending
  <2>7. ApprovedInv(d)'
    BY <1>4, <1>6, <1>11, <2>3, <2>4 DEF ApprovedInv
  <2> QED BY <2>5, <2>6, <2>7 DEF DocInv
<1> QED BY <1>7, <1>8, <1>9, <1>10, <1>11, <1>12, <1>13, CallEnds

--------------------------------------------------------------------------------
(* The calls that write a request and its document.                           *)

\* What a decision or a withdrawal knows when it writes.
LEMMA RequestCall ==
  ASSUME Inv, NEW c \in Calls, txn[c] # Idle, txn[c].act \in RequestActs
  PROVE  LET r == txn[c].req  d == request[r].doc IN
         /\ RequestCallInv(txn[c])
         /\ r \in DOMAIN request /\ request[r] \in RequestType
         /\ d \in Docs /\ r \in Of(d)
         /\ doc[d] \in RowType /\ issued[d] \in 0 .. 2
         /\ txn[c].user \in Users
         /\ d \notin overtaken => DocInv(d)
<1>1. RequestCallInv(txn[c]) /\ txn[c].user \in Users
  BY CallFacts DEF Inv, CallsInv, RowActs, RequestActs
<1>2. txn[c].req \in DOMAIN request
  BY <1>1 DEF RequestCallInv
<1>3. request[txn[c].req] \in RequestType
  BY <1>2, RequestFacts DEF Inv
<1>4. request[txn[c].req].doc \in Docs
  BY <1>3 DEF RequestType
<1> QED BY <1>1, <1>2, <1>3, <1>4 DEF Inv, DocsInv, TypeOK, Of

\* A call that writes a request and its document keeps the invariant, if it either
\* overtakes another call or keeps what is said of the document.
LEMMA WritesBoth ==
  ASSUME Inv, NEW c \in Calls, End(c), NEW d \in Docs, NEW r \in Of(d),
         NEW new \in RequestType, request' = [request EXCEPT ![r] = new],
         new.idx >= 1, new.status = "pending" => new.idx \in DOMAIN new.steps,
         Kept(request[r], new),
         NEW row \in RowType, doc' = [doc EXCEPT ![d] = row],
         row.kind = doc[d].kind, row.link \in {Never, doc[d].link},
         \/ UNCHANGED <<issued, via>>
         \/ /\ issued' = [issued EXCEPT ![d] = Min({@ + 1, 2})]
            /\ via' = [via EXCEPT ![d] = r],
         NEW yes, Overtake(d, yes),
         ~yes /\ d \notin overtaken => DocInv(d)'
  PROVE  Inv'
<1>1. /\ overtaken' = IF yes THEN overtaken \cup {d} ELSE overtaken
      /\ TypeOK /\ RequestsInv /\ LinkInv /\ r \in DOMAIN request /\ request[r].doc = d
  BY DEF Overtake, Inv, Of
<1>2. /\ request' \in Seq(RequestType) /\ DOMAIN request' = DOMAIN request
      /\ request'[r] = new
      /\ \A q \in DOMAIN request : q # r => request'[q] = request[q]
  <2>1. request \in Seq(RequestType) /\ r \in 1 .. Len(request)
        /\ DOMAIN request = 1 .. Len(request)
    BY <1>1, RequestFacts DEF TypeOK
  <2>2. /\ request' \in Seq(RequestType) /\ Len(request') = Len(request)
        /\ \A q \in 1 .. Len(request) : request'[q] = IF q = r THEN new ELSE request[q]
    BY <2>1, ExceptSeq
  <2>3. DOMAIN request' = 1 .. Len(request)
    BY <2>2, LenProperties
  <2> QED BY <2>1, <2>2, <2>3
<1>3. issued[d] \in 0 .. 2 /\ Min({issued[d] + 1, 2}) \in 0 .. 2
  BY <1>1, CountUp DEF TypeOK
<1>4. issued' \in [Docs -> 0 .. 2] /\ via' \in [Docs -> DOMAIN request' \cup {Never}]
      /\ \A e \in Docs \ {d} : issued'[e] = issued[e] /\ via'[e] = via[e]
  BY <1>1, <1>2, <1>3, SMTT(30) DEF TypeOK
<1>5. doc' \in [Docs -> RowType] /\ doc'[d] = row
      /\ \A e \in Docs \ {d} : doc'[e] = doc[e]
  BY <1>1 DEF TypeOK
<1>6. TypeOK'
  <2>1. txn' \in [Calls -> {Idle} \cup CallType]
    BY <1>1 DEF TypeOK, End
  <2>2. \A q \in DOMAIN request' :
          request'[q].status = "pending" => request'[q].idx \in DOMAIN request'[q].steps
    BY <1>1, <1>2 DEF TypeOK, Pending
  <2>3. overtaken' \subseteq Docs
    BY <1>1 DEF TypeOK
  <2> QED BY <1>2, <1>4, <1>5, <2>1, <2>2, <2>3 DEF TypeOK, Pending
<1>7. RequestsInv'
  <2>1. request[r].steps # <<>> /\ new.steps # <<>>
    <3>1. request[r].steps # <<>> /\ request[r].steps \in Seq(StepType)
          /\ DOMAIN request[r].steps = 1 .. Len(request[r].steps)
      BY <1>1, RequestFacts DEF RequestsInv
    <3>2. 1 \in DOMAIN request[r].steps
      BY <3>1, EmptySeq
    <3>3. 1 \in DOMAIN new.steps
      BY <3>2 DEF Kept
    <3> QED BY <3>1, <3>3
  <2>2. ASSUME NEW q \in DOMAIN request'
        PROVE  /\ request'[q].steps # <<>> /\ request'[q].idx >= 1
               /\ request'[q].status = "pending" => request'[q].idx \in DOMAIN request'[q].steps
    BY <1>1, <1>2, <2>1 DEF RequestsInv
  <2> QED BY <2>2 DEF RequestsInv
<1>8. Of(d)' = Of(d)
  BY <1>1, <1>2 DEF Of, Kept
<1>9. OnlyOn(d)
  <2>1. \A q \in DOMAIN request : request[q].idx \in Nat
    BY <1>1, RequestFacts DEF RequestType
  <2>2. \A q \in DOMAIN request : q # r => Kept(request[q], request'[q])
    BY <1>1, <1>2, <2>1 DEF Kept
  <2> QED BY <1>1, <1>2, <1>4, <1>5, <2>2 DEF OnlyOn
<1>10. doc'[d].link # Never => doc'[d].link \in Of(d)'
  BY <1>1, <1>5, <1>8 DEF LinkInv
<1> QED BY <1>1, <1>6, <1>7, <1>9, <1>10, CallEnds

\* A pending request is the only one that its document is pending on, and nothing has
\* issued the document yet.
LEMMA OnePending ==
  ASSUME Inv, NEW d \in Docs, DocInv(d), NEW r \in Of(d), Pending(r)
  PROVE  /\ \A q \in Of(d) : q # r => ~Pending(q)
         /\ \A q \in Of(d) : request[q].status # "approved" /\ q <= r
         /\ doc[d].status = "waiting" /\ doc[d].link = r
         /\ Halfway(request[r])
         /\ issued[d] = 0 /\ via[d] = Never
<1>1. /\ doc[d].status = "waiting" /\ doc[d].link = r /\ Halfway(request[r])
      /\ \A q \in Of(d) : (Pending(q) => doc[d].link = q) /\ q <= r
  BY DEF DocInv, PendingInv
<1> QED BY <1>1, NothingOpen DEF DocInv, IssuedInv

\* What a rejection and a withdrawal make of the document.
LEMMA GivenBack ==
  ASSUME NEW row \in RowType, NEW new \in {Rejected(row), Withdrawn(row)}
  PROVE  /\ new \in RowType /\ new.kind = row.kind /\ new.link \in {Never, row.link}
         /\ new.status \in {"draft", "rejected"}
         /\ new.kind = "requisition" => new.link = Never
<1>1. row.kind \in {"bill", "order", "requisition", "claim"}
  BY DEF RowType, Kinds
<1>2. CASE new = Withdrawn(row)
  BY <1>1, <1>2 DEF Withdrawn, RowType
<1>3. CASE new = Rejected(row)
  <2>1. CASE row.kind \in {"bill", "order"}
    BY <1>3, <2>1 DEF Rejected, RowType
  <2>2. CASE row.kind = "requisition"
    BY <1>3, <2>2 DEF Rejected, RowType
  <2>3. CASE row.kind = "claim"
    BY <1>3, <2>3 DEF Rejected, RowType
  <2> QED BY <1>1, <2>1, <2>2, <2>3
<1> QED BY <1>2, <1>3

\* A rejection or a withdrawal closes the request and gives the document back.
LEMMA ClosesRequest ==
  ASSUME Inv, NEW c \in Calls, End(c), NEW d \in Docs, NEW r \in Of(d),
         NEW new \in RequestType, request' = [request EXCEPT ![r] = new],
         new.idx >= 1, Kept(request[r], new), new.status # "pending",
         Pending(r) => new.status # "approved",
         NEW row \in {Rejected(doc[d]), Withdrawn(doc[d])}, doc' = [doc EXCEPT ![d] = row],
         UNCHANGED <<issued, via>>, Overtake(d, ~Pending(r))
  PROVE  Inv'
<1>1. doc[d] \in RowType /\ DOMAIN doc = Docs
  BY DEF Inv, TypeOK
<1>2. /\ row \in RowType /\ row.kind = doc[d].kind /\ row.link \in {Never, doc[d].link}
      /\ row.status \in {"draft", "rejected"}
      /\ row.kind = "requisition" => row.link = Never
  BY <1>1, GivenBack
<1>3. r \in DOMAIN request /\ request[r].doc = d
  BY DEF Of
<1>4. /\ doc'[d] = row /\ request'[r] = new /\ DOMAIN request' = DOMAIN request
      /\ \A q \in DOMAIN request : q # r => request'[q] = request[q]
  BY <1>1, <1>3
<1>5. Of(d)' = Of(d)
  BY <1>3, <1>4 DEF Of, Kept
<1>6. ASSUME Pending(r), d \notin overtaken PROVE DocInv(d)'
  <2>1. DocInv(d)
    BY <1>6 DEF Inv, DocsInv
  <2>2. /\ \A q \in Of(d) : q # r => ~Pending(q)
        /\ \A q \in Of(d) : request[q].status # "approved"
        /\ issued'[d] = 0 /\ via'[d] = Never
    BY <1>6, <2>1, OnePending
  <2>3. \A q \in Of(d)' : request'[q].status \notin {"pending", "approved"}
    BY <1>4, <1>5, <1>6, <2>2 DEF Of, Pending
  <2> QED BY <1>2, <1>4, <2>2, <2>3
             DEF DocInv, RowInv, PendingInv, ApprovedInv, WaitingInv, IssuedInv, Pending
<1> QED BY <1>2, <1>6, WritesBoth

\* A decision writes who took it at one step.
Decided(steps, at, outcome, user) ==
  [steps EXCEPT ![at].status = outcome, ![at].by = user]

\* It writes nothing else.
LEMMA DecidedStep ==
  ASSUME NEW steps \in Seq(StepType), NEW at \in DOMAIN steps, NEW user \in Users,
         NEW outcome \in {"approved", "rejected"}
  PROVE  LET new == Decided(steps, at, outcome, user) IN
         /\ new \in Seq(StepType) /\ DOMAIN new = DOMAIN steps
         /\ \A n \in DOMAIN steps : new[n].approvers = steps[n].approvers
         /\ \A n \in DOMAIN steps : n # at => new[n] = steps[n]
         /\ new[at].status = outcome /\ new[at].by = user
<1>1. DOMAIN steps = 1 .. Len(steps) /\ Len(steps) \in Nat /\ steps[at] \in StepType
  BY LenProperties, ElementOfSeq
<1> DEFINE step == [steps[at] EXCEPT !.status = outcome, !.by = user]
           new  == Decided(steps, at, outcome, user)
<1>2. /\ step \in StepType /\ step.approvers = steps[at].approvers
      /\ step.status = outcome /\ step.by = user
  BY <1>1 DEF StepType
<1>3. new = [steps EXCEPT ![at] = step]
  BY DEF Decided
<1> HIDE DEF step, new
<1>4. /\ new \in Seq(StepType) /\ Len(new) = Len(steps)
      /\ \A n \in DOMAIN steps : new[n] = IF n = at THEN step ELSE steps[n]
  <2> DEFINE updated == [steps EXCEPT ![at] = step]
  <2>1. /\ updated \in Seq(StepType) /\ Len(updated) = Len(steps)
        /\ \A n \in 1 .. Len(steps) : updated[n] = IF n = at THEN step ELSE steps[n]
    BY <1>1, <1>2, ExceptSeq
  <2> QED BY <1>1, <1>3, <2>1
<1>5. DOMAIN new = DOMAIN steps
  BY <1>1, <1>4, LenProperties
<1> QED BY <1>2, <1>4, <1>5 DEF new

\* A rejection closes the request.
LEMMA Rejects ==
  ASSUME Inv, NEW c \in Calls, Reject(c)
  PROVE  Inv'
<1>1. txn[c] # Idle /\ txn[c].act = "reject" /\ txn[c].act \in RequestActs
  BY Zenon DEF Reject, Doing, RequestActs
<1>2. PICK r \in DOMAIN request : r = txn[c].req
  BY <1>1, RequestCall
<1>3. PICK d \in Docs : d = request[r].doc
  BY <1>1, <1>2, RequestCall
<1>4. PICK at \in Nat : at = txn[c].at
  BY <1>1, CallFacts DEF Inv, RowActs, RequestActs
<1>5. PICK user \in Users : user = txn[c].user
  BY <1>1, RequestCall
<1>6. /\ request[r] \in RequestType /\ r \in Of(d) /\ request[r].idx >= 1
      /\ at \in DOMAIN request[r].steps
  BY <1>1, <1>2, <1>3, <1>4, RequestCall DEF RequestCallInv, Inv, RequestsInv
<1> DEFINE skipped == Skip(request[r].steps)
           steps   == Decided(skipped, at, "rejected", user)
           new     == [request[r] EXCEPT !.status = "rejected", !.steps = steps]
<1>7. /\ skipped \in Seq(StepType) /\ DOMAIN skipped = DOMAIN request[r].steps
      /\ \A n \in DOMAIN skipped : /\ skipped[n].approvers = request[r].steps[n].approvers
                                   /\ skipped[n] \in StepType
  <2>1. request[r].steps \in Seq(StepType)
    BY <1>6 DEF RequestType
  <2>2. skipped \in Seq(StepType)
    BY <2>1, SkipFacts
  <2> QED BY <2>1, <2>2, SkipFacts, LenProperties, ElementOfSeq
<1>8. request' = [request EXCEPT ![r] = new]
  <2>1. request' = [request EXCEPT ![r].status = "rejected", ![r].steps = steps]
    BY <1>2, <1>4, <1>5 DEF Reject, Decided
  <2> HIDE DEF steps
  <2> QED BY <1>6, <2>1
<1> HIDE DEF skipped
<1>9. /\ steps \in Seq(StepType) /\ DOMAIN steps = DOMAIN request[r].steps
      /\ \A n \in DOMAIN steps : steps[n].approvers = request[r].steps[n].approvers
  <2>1. /\ steps \in Seq(StepType) /\ DOMAIN steps = DOMAIN skipped
        /\ \A n \in DOMAIN skipped : steps[n].approvers = skipped[n].approvers
    BY <1>6, <1>7, DecidedStep
  <2> QED BY <1>7, <2>1
<1> HIDE DEF steps
<1>10. /\ new \in RequestType /\ new.idx = request[r].idx /\ new.status = "rejected"
       /\ Kept(request[r], new)
  BY <1>6, <1>9 DEF RequestType, Kept
<1> HIDE DEF new
<1>11. /\ End(c) /\ UNCHANGED <<issued, via>> /\ Overtake(d, ~Pending(r))
       /\ doc' = [doc EXCEPT ![d] = Rejected(doc[d])]
  BY <1>2, <1>3 DEF Reject
<1> QED BY <1>6, <1>8, <1>10, <1>11, ClosesRequest

\* What a cancel makes of a request.
LEMMA CancelFacts ==
  ASSUME NEW req \in RequestType
  PROVE  LET new == CancelRequest(req) IN
         /\ new \in RequestType /\ Kept(req, new) /\ new.idx = req.idx
         /\ new.status = IF req.status = "pending" THEN "cancelled" ELSE req.status
         /\ \A n \in DOMAIN req.steps :
              req.steps[n].status # "pending" => new.steps[n] = req.steps[n]
<1>1. req.steps \in Seq(StepType)
  BY DEF RequestType
<1>2. /\ Skip(req.steps) \in Seq(StepType) /\ DOMAIN Skip(req.steps) = DOMAIN req.steps
      /\ \A n \in DOMAIN req.steps :
           /\ Skip(req.steps)[n].approvers = req.steps[n].approvers
           /\ req.steps[n].status # "pending" => Skip(req.steps)[n] = req.steps[n]
  BY <1>1, SkipFacts
<1> DEFINE new == CancelRequest(req)
<1>3. /\ new.steps = Skip(req.steps) /\ new.doc = req.doc /\ new.idx = req.idx
      /\ new.submitter = req.submitter
      /\ new.status = IF req.status = "pending" THEN "cancelled" ELSE req.status
      /\ new \in RequestType
  BY <1>2 DEF CancelRequest, RequestType
<1> QED BY <1>2, <1>3 DEF Kept, RequestType

\* So does a withdrawal.
LEMMA Withdraws ==
  ASSUME Inv, NEW c \in Calls, Withdraw(c)
  PROVE  Inv'
<1>1. txn[c] # Idle /\ txn[c].act = "withdraw" /\ txn[c].act \in RequestActs
  BY DEF Withdraw, Doing, RequestActs
<1>2. PICK r \in DOMAIN request : r = txn[c].req
  BY <1>1, RequestCall
<1>3. PICK d \in Docs : d = request[r].doc
  BY <1>1, <1>2, RequestCall
<1>4. /\ request[r] \in RequestType /\ r \in Of(d) /\ request[r].idx >= 1
  BY <1>1, <1>2, <1>3, RequestCall DEF Inv, RequestsInv
<1> DEFINE new == CancelRequest(request[r])
<1>5. /\ new \in RequestType /\ Kept(request[r], new) /\ new.idx = request[r].idx
      /\ new.status = IF Pending(r) THEN "cancelled" ELSE request[r].status
  BY <1>4, CancelFacts DEF Pending
<1>6. /\ End(c) /\ UNCHANGED <<issued, via>> /\ Overtake(d, ~Pending(r))
      /\ doc' = [doc EXCEPT ![d] = Withdrawn(doc[d])]
      /\ request' = [request EXCEPT ![r] = new]
  BY <1>2, <1>3 DEF Withdraw
<1> HIDE DEF new
<1>7. new.status # "pending" /\ (Pending(r) => new.status # "approved")
  BY <1>5 DEF Pending
<1> QED BY <1>4, <1>5, <1>6, <1>7, ClosesRequest

\* What a cancel makes of the document.
LEMMA CancelledRow ==
  ASSUME NEW row \in RowType
  PROVE  /\ Cancelled(row) \in RowType /\ Cancelled(row).kind = row.kind
         /\ Cancelled(row).status = "cancelled"
         /\ Cancelled(row).link \in {Never, row.link}
         /\ row.kind = "requisition" => Cancelled(row).link = Never
BY DEF RowType, Cancelled

\* A cancel closes the request that it has read of, if that is still the document's:
\* no other one can be pending.
LEMMA Cancels ==
  ASSUME Inv, NEW c \in Calls, Cancel(c)
  PROVE  Inv'
<1>1. txn[c] # Idle /\ txn[c].act = "cancel" /\ txn[c].act \in RowActs
  BY DEF Cancel, Doing, RowActs
<1>2. PICK d \in Docs : d = txn[c].doc
  BY <1>1, RowCall
<1>3. PICK read \in RowType : read = txn[c].read
  BY <1>1, RowCall
<1>4. /\ doc[d] \in RowType /\ issued[d] \in 0 .. 2
      /\ d \notin overtaken => DocInv(d) /\ RowInv(read)
      /\ read.kind = doc[d].kind
      /\ read.link # Never => read.link \in Of(d)
  BY <1>1, <1>2, <1>3, RowCall DEF RowCallInv
<1> DEFINE yes   == doc[d].link \notin {read.link, Never}
           row   == Cancelled(doc[d])
           owned == read.link # Never /\ (doc[d].kind = "requisition" =>
                                                read.status = "waiting")
<1>5. /\ End(c) /\ UNCHANGED <<issued, via>> /\ Overtake(d, yes)
      /\ doc' = [doc EXCEPT ![d] = row] /\ DOMAIN doc = Docs
      /\ IF owned THEN request' = [request EXCEPT ![read.link] = CancelRequest(@)]
                  ELSE request' = request
  BY <1>2, <1>3 DEF Cancel, Inv, TypeOK
<1>6. /\ row \in RowType /\ row.kind = doc[d].kind /\ row.link \in {Never, doc[d].link}
      /\ row.status = "cancelled"
      /\ row.kind = "requisition" => row.link = Never
  BY <1>4, CancelledRow
<1> HIDE DEF row
<1>7. doc'[d] = row
  BY <1>5
<1>8. ASSUME ~yes, d \notin overtaken
      PROVE  \A q \in Of(d) : Pending(q) => owned /\ q = read.link
  <2>1. PendingInv(d) /\ RowInv(read) /\ Never \notin Of(d)
    BY <1>4, <1>8, RequestFacts, ApprovalAssumption DEF DocInv, Of, Inv
  <2> QED BY <1>4, <1>8, <2>1 DEF PendingInv, RowInv
<1>9. CASE ~owned
  <2>1. Of(d)' = Of(d) /\ request' = request
    BY <1>5, <1>9 DEF Of
  <2>2. ASSUME ~yes, d \notin overtaken PROVE DocInv(d)'
    <3>1. DocInv(d) /\ \A q \in Of(d) : ~Pending(q)
      BY <1>4, <1>8, <1>9, <2>2
    <3> QED BY <1>5, <1>6, <1>7, <2>1, <3>1
               DEF DocInv, RowInv, PendingInv, ApprovedInv, WaitingInv, IssuedInv, Pending
  <2> HIDE DEF yes
  <2> QED BY <1>5, <1>6, <2>1, <2>2, WritesRow
<1>10. CASE owned
  <2>1. PICK r \in Of(d) : r = read.link
    BY <1>4, <1>10
  <2>2. r \in DOMAIN request /\ request[r].doc = d /\ request[r] \in RequestType
        /\ request[r].idx >= 1
    BY <2>1, RequestFacts DEF Of, Inv, RequestsInv
  <2> DEFINE new == CancelRequest(request[r])
  <2>3. /\ new \in RequestType /\ Kept(request[r], new) /\ new.idx = request[r].idx
        /\ new.status = IF request[r].status = "pending" THEN "cancelled" ELSE request[r].status
        /\ \A n \in DOMAIN request[r].steps :
             request[r].steps[n].status # "pending" => new.steps[n] = request[r].steps[n]
    BY <2>2, CancelFacts
  <2>4. request' = [request EXCEPT ![r] = new]
    BY <1>5, <1>10, <2>1
  <2> HIDE DEF new
  <2>5. /\ DOMAIN request' = DOMAIN request /\ request'[r] = new
        /\ \A q \in DOMAIN request : q # r => request'[q] = request[q]
    BY <2>2, <2>4
  <2>6. Of(d)' = Of(d)
    BY <2>2, <2>3, <2>5 DEF Of, Kept
  <2>7. ASSUME ~yes, d \notin overtaken PROVE DocInv(d)'
    <3>1. DocInv(d) /\ Of(d) \subseteq DOMAIN request
      BY <1>4, <2>7 DEF Of
    <3>2. \A q \in Of(d) : request'[q].status # "pending"
      BY <1>8, <2>1, <2>3, <2>5, <2>7, <3>1 DEF Pending
    <3>3. \A q \in Of(d) : request'[q].status = "approved" <=> request[q].status = "approved"
      BY <2>3, <2>5, <3>1
    <3>4. \A q \in Of(d) : request'[q].status = "approved" => AllAgreed(request'[q])
      <4>1. ASSUME request[r].status = "approved"
            PROVE  AllAgreed(new)
        <5>1. AllAgreed(request[r])
          BY <3>1, <4>1 DEF DocInv, ApprovedInv
        <5> QED BY <5>1, <2>3 DEF AllAgreed, Agreed, Kept
      <4>2. \A q \in Of(d) \ {r} : request[q].status = "approved" => AllAgreed(request[q])
        BY <3>1 DEF DocInv, ApprovedInv
      <4> QED BY <2>5, <3>1, <3>3, <4>1, <4>2
    <3>5. RowInv(doc[d])' /\ PendingInv(d)' /\ WaitingInv(d)'
      BY <1>6, <1>7, <2>6, <3>2 DEF RowInv, PendingInv, WaitingInv, Pending
    <3>6. ApprovedInv(d)'
      BY <1>6, <1>7, <2>6, <3>4 DEF ApprovedInv
    <3>7. IssuedInv(d)'
      BY <1>5, <1>6, <1>7, <2>6, <3>1, <3>3 DEF DocInv, IssuedInv
    <3> QED BY <3>5, <3>6, <3>7 DEF DocInv
  <2> HIDE DEF yes
  <2>8. new.status # "pending"
    BY <2>3
  <2> QED BY <1>5, <1>6, <2>2, <2>3, <2>4, <2>7, <2>8, WritesBoth
<1> QED BY <1>9, <1>10

\* What an approval makes of the request, whether the decider was first or second to
\* approve the step.
Approved(req, at, user, last) ==
  [req EXCEPT !.steps = Decided(req.steps, at, "approved", user),
              !.idx = at + 1,
              !.status = IF last THEN "approved" ELSE req.status]

\* It writes nothing else, and the step is agreed on.
LEMMA ApprovedFacts ==
  ASSUME NEW req \in RequestType, NEW at \in DOMAIN req.steps,
         NEW user \in req.steps[at].approvers \ {req.submitter}, user \in Users,
         NEW last \in BOOLEAN
  PROVE  LET new == Approved(req, at, user, last) IN
         /\ new \in RequestType /\ new.doc = req.doc /\ new.submitter = req.submitter
         /\ new.idx = at + 1
         /\ new.status = IF last THEN "approved" ELSE req.status
         /\ DOMAIN new.steps = DOMAIN req.steps
         /\ \A n \in DOMAIN req.steps : new.steps[n].approvers = req.steps[n].approvers
         /\ \A n \in DOMAIN req.steps : n # at => new.steps[n] = req.steps[n]
         /\ Agreed(new, at)
<1>1. req.steps \in Seq(StepType) /\ DOMAIN req.steps \subseteq Nat
  <2>1. req.steps \in Seq(StepType)
    BY DEF RequestType
  <2> QED BY <2>1, LenProperties
<1> DEFINE steps == Decided(req.steps, at, "approved", user)
           new   == Approved(req, at, user, last)
<1>2. /\ steps \in Seq(StepType) /\ DOMAIN steps = DOMAIN req.steps
      /\ \A n \in DOMAIN req.steps : steps[n].approvers = req.steps[n].approvers
      /\ \A n \in DOMAIN req.steps : n # at => steps[n] = req.steps[n]
      /\ steps[at].status = "approved" /\ steps[at].by = user
  <2>1. "approved" \in {"approved", "rejected"}
    OBVIOUS
  <2> QED BY <1>1, <2>1, DecidedStep, SMTT(30)
<1> DEFINE status == IF last THEN "approved" ELSE req.status
<1>3. new = [req EXCEPT !.steps = steps, !.idx = at + 1, !.status = status]
  BY DEF Approved
<1>4. status \in {"pending", "approved", "rejected", "cancelled"} /\ at + 1 \in Nat
  BY <1>1 DEF RequestType
<1> HIDE DEF steps, new, status
<1>5. /\ new.steps = steps /\ new.doc = req.doc /\ new.submitter = req.submitter
      /\ new.idx = at + 1 /\ new.status = status /\ new \in RequestType
  BY <1>2, <1>3, <1>4 DEF RequestType
<1> QED BY <1>2, <1>5 DEF Agreed, new, status

\* An approval goes on with the request, or issues the document after the last step.
LEMMA Approves ==
  ASSUME Inv, NEW c \in Calls, Approve(c)
  PROVE  Inv'
<1>1. txn[c] # Idle /\ txn[c].act = "approve" /\ txn[c].act \in RequestActs
  BY Zenon DEF Approve, Doing, RequestActs
<1>2. PICK r \in DOMAIN request : r = txn[c].req
  BY <1>1, RequestCall
<1>3. PICK d \in Docs : d = request[r].doc
  BY <1>1, <1>2, RequestCall
<1>4. PICK at \in Nat : at = txn[c].at
  BY <1>1, CallFacts DEF Inv, RowActs, RequestActs
<1>5. PICK user \in Users : user = txn[c].user
  BY <1>1, RequestCall
<1>6. /\ request[r] \in RequestType /\ r \in Of(d) /\ request[r].idx >= 1
      /\ at \in DOMAIN request[r].steps
      /\ user \in request[r].steps[at].approvers \ {request[r].submitter}
      /\ Pending(r) /\ d \notin overtaken => at <= request[r].idx
      /\ doc[d] \in RowType /\ issued[d] \in 0 .. 2
      /\ d \notin overtaken => DocInv(d)
  BY <1>1, <1>2, <1>3, <1>4, <1>5, RequestCall DEF RequestCallInv, Inv, RequestsInv
<1>7. /\ DOMAIN request[r].steps = 1 .. Len(request[r].steps)
      /\ Len(request[r].steps) \in Nat
      /\ Pending(r) => request[r].idx \in DOMAIN request[r].steps
      /\ request[r].idx \in Nat
  BY RequestFacts DEF Inv, RequestType, TypeOK
<1>8. PICK last \in BOOLEAN : last <=> at + 1 > Len(request[r].steps)
  OBVIOUS
<1> DEFINE new == Approved(request[r], at, user, last)
           yes == \/ request[r].status \in {"rejected", "cancelled"}
                  \/ Pending(r) /\ request[r].idx > at + 1
<1>9. /\ request' = [request EXCEPT ![r] = new]
      /\ IF last /\ doc[d].status = "waiting"
           THEN Issue(d, r)
           ELSE UNCHANGED <<doc, issued, via>>
      /\ Overtake(d, yes) /\ End(c)
  <2>1. /\ request' = [request EXCEPT
             ![r].steps[at].status = "approved",
             ![r].steps[at].by     = user,
             ![r].idx    = at + 1,
             ![r].status = IF last THEN "approved" ELSE @]
        /\ IF last /\ doc[d].status = "waiting"
             THEN Issue(d, r)
             ELSE UNCHANGED <<doc, issued, via>>
        /\ Overtake(d, yes) /\ End(c)
    BY <1>2, <1>3, <1>4, <1>5, <1>8, Zenon DEF Approve, IsLast, Ready
  <2>2. [request EXCEPT
             ![r].steps[at].status = "approved",
             ![r].steps[at].by     = user,
             ![r].idx    = at + 1,
             ![r].status = IF last THEN "approved" ELSE @]
        = [request EXCEPT ![r] = new]
    BY <1>6, ZenonT(60) DEF Approved, Decided, RequestType
  <2> QED BY <2>1, <2>2
<1>10. /\ new \in RequestType /\ new.doc = d /\ new.submitter = request[r].submitter
       /\ new.idx = at + 1
       /\ new.status = IF last THEN "approved" ELSE request[r].status
       /\ DOMAIN new.steps = DOMAIN request[r].steps
       /\ \A n \in DOMAIN request[r].steps :
            new.steps[n].approvers = request[r].steps[n].approvers
       /\ \A n \in DOMAIN request[r].steps : n # at => new.steps[n] = request[r].steps[n]
       /\ Agreed(new, at)
  BY <1>3, <1>6, ApprovedFacts
<1> HIDE DEF new
<1>11. /\ DOMAIN request' = DOMAIN request /\ request'[r] = new
       /\ \A q \in DOMAIN request : q # r => request'[q] = request[q]
  BY <1>9
<1>12. Of(d)' = Of(d)
  BY <1>3, <1>10, <1>11 DEF Of
\* A request that is still pending is at the step that was decided, or just after it.
<1>13. ASSUME Pending(r), ~yes, d \notin overtaken
       PROVE  /\ \A n \in DOMAIN new.steps : n <= at => Agreed(new, n)
              /\ \A n \in DOMAIN new.steps : n > at => new.steps[n].status = "pending"
              /\ \A q \in Of(d) : q # r => ~Pending(q)
              /\ \A q \in Of(d) : request[q].status # "approved" /\ q <= r
              /\ doc[d].status = "waiting" /\ doc[d].link = r
              /\ issued[d] = 0 /\ via[d] = Never
  <2>1. /\ Halfway(request[r])
        /\ \A q \in Of(d) : q # r => ~Pending(q)
        /\ \A q \in Of(d) : request[q].status # "approved" /\ q <= r
        /\ doc[d].status = "waiting" /\ doc[d].link = r
        /\ issued[d] = 0 /\ via[d] = Never
    BY <1>6, <1>13, OnePending
  <2>2. at <= request[r].idx /\ request[r].idx <= at + 1
    BY <1>6, <1>7, <1>13
  <2>3. ASSUME NEW n \in DOMAIN new.steps, n <= at
        PROVE  Agreed(new, n)
    <3>1. CASE n = at
      BY <1>10, <3>1
    <3>2. CASE n # at
      <4>1. n < request[r].idx /\ n \in DOMAIN request[r].steps
        BY <1>7, <1>10, <2>2, <2>3, <3>2
      <4>2. Agreed(request[r], n)
        BY <2>1, <4>1 DEF Halfway
      <4> QED BY <1>10, <3>2, <4>1, <4>2 DEF Agreed
    <3> QED BY <3>1, <3>2
  <2>4. ASSUME NEW n \in DOMAIN new.steps, n > at
        PROVE  new.steps[n].status = "pending"
    <3>1. ~(n < request[r].idx) /\ n \in DOMAIN request[r].steps /\ n # at
      BY <1>7, <1>10, <2>2, <2>4
    <3> QED BY <1>10, <2>1, <3>1 DEF Halfway
  <2> QED BY <2>1, <2>3, <2>4
<1>14. ~yes => request[r].status \in {"pending", "approved"}
  BY <1>6 DEF RequestType
<1>15. Kept(request[r], new)
  <2>1. yes => d \in overtaken'
    BY <1>9 DEF Overtake
  <2> QED BY <1>3, <1>7, <1>10, <2>1 DEF Kept, Pending
<1>16. CASE last /\ doc[d].status = "waiting"
  <2>1. /\ doc' = [doc EXCEPT ![d] = Issued(doc[d])]
        /\ issued' = [issued EXCEPT ![d] = Min({@ + 1, 2})]
        /\ via' = [via EXCEPT ![d] = r]
    BY <1>9, <1>16 DEF Issue
  <2> DEFINE row == Issued(doc[d])
  <2>2. /\ row \in RowType /\ row.kind = doc[d].kind
        /\ row.status = "issued" /\ row.link \in {Never, doc[d].link}
        /\ row.kind = "requisition" => row.link = Never
    BY <1>6 DEF RowType, Issued
  <2> HIDE DEF row
  <2>3. /\ doc'[d] = row /\ via'[d] = r
        /\ issued[d] = 0 => issued'[d] = 1
    BY <1>6, <2>1, CountUp DEF Inv, TypeOK, row
  <2>4. ASSUME ~yes, d \notin overtaken PROVE DocInv(d)'
    <3>1. Pending(r)
      BY <1>6, <1>14, <1>16, <2>4, NothingOpen DEF Pending
    <3>2. AllAgreed(new) /\ new.status = "approved"
      BY <1>7, <1>8, <1>10, <1>13, <1>16, <2>4, <3>1 DEF AllAgreed
    <3>3. /\ \A q \in Of(d) : request'[q].status # "pending" /\ q <= r
          /\ \A q \in Of(d) : q # r => request'[q].status # "approved"
          /\ issued'[d] = 1
      BY <1>11, <1>13, <2>3, <2>4, <3>1, <3>2 DEF Pending, Of
    <3>4. RowInv(doc[d])' /\ PendingInv(d)' /\ WaitingInv(d)'
      BY <1>12, <2>2, <2>3, <3>3 DEF RowInv, PendingInv, WaitingInv, Pending
    <3>5. ApprovedInv(d)'
      BY <1>11, <1>12, <2>2, <2>3, <3>2, <3>3 DEF ApprovedInv
    <3>6. IssuedInv(d)'
      BY <1>6, <1>11, <1>12, <2>2, <2>3, <3>2, <3>3 DEF IssuedInv
    <3> QED BY <3>4, <3>5, <3>6 DEF DocInv
  <2>5. new.status # "pending"
    BY <1>10, <1>16
  <2>6. doc' = [doc EXCEPT ![d] = row]
    BY <2>1 DEF row
  <2>7. new.idx >= 1
    BY <1>4, <1>10
  <2> HIDE DEF yes
  <2> QED BY <1>6, <1>9, <1>10, <1>15, <2>1, <2>2, <2>4, <2>5, <2>6, <2>7, WritesBoth
<1>17. CASE ~(last /\ doc[d].status = "waiting")
  <2>1. UNCHANGED <<doc, issued, via>> /\ doc' = [doc EXCEPT ![d] = doc[d]]
    BY <1>9, <1>17 DEF Inv, TypeOK
  <2>2. new.status = "pending" => new.idx \in DOMAIN new.steps
    BY <1>7, <1>8, <1>10
  <2>3. ASSUME ~yes, d \notin overtaken PROVE DocInv(d)'
    <3>1. CASE Pending(r)
      <4>1. ~last /\ new.status = "pending"
        BY <1>10, <1>13, <1>17, <2>3, <3>1 DEF Pending
      <4>2. Halfway(new)
        BY <1>7, <1>10, <1>13, <2>3, <3>1 DEF Halfway
      <4>3. \A q \in Of(d) : request'[q].status # "approved"
        BY <1>11, <1>13, <2>3, <3>1, <4>1 DEF Of
      <4>4. \A q \in Of(d) : request'[q].status = "pending" => q = r
        BY <1>11, <1>13, <2>3, <3>1 DEF Of, Pending
      <4>5. DocInv(d) /\ doc[d].status = "waiting" /\ doc[d].link = r
            /\ issued[d] = 0 /\ via[d] = Never
            /\ \A q \in Of(d) : q <= r
        BY <1>6, <1>13, <2>3, <3>1
      <4>6. PendingInv(d)'
        BY <1>11, <1>12, <2>1, <4>2, <4>4, <4>5 DEF PendingInv, Pending
      <4>7. ApprovedInv(d)'
        BY <1>12, <4>3 DEF ApprovedInv
      <4>8. RowInv(doc[d])' /\ WaitingInv(d)' /\ IssuedInv(d)'
        BY <1>11, <2>1, <4>1, <4>5
           DEF DocInv, RowInv, WaitingInv, IssuedInv, Pending
      <4> QED BY <4>6, <4>7, <4>8 DEF DocInv
    <3>2. CASE ~Pending(r)
      <4>1. request[r].status = "approved" /\ new.status = "approved" /\ DocInv(d)
        BY <1>6, <1>10, <1>14, <2>3, <3>2 DEF Pending
      <4>2. AllAgreed(request[r])
        BY <1>6, <4>1 DEF DocInv, ApprovedInv
      <4>3. AllAgreed(new)
        <5> SUFFICES ASSUME NEW n \in DOMAIN new.steps PROVE Agreed(new, n)
          BY DEF AllAgreed
        <5>1. CASE n = at
          BY <1>10, <5>1
        <5>2. CASE n # at
          BY <1>10, <4>2, <5>2 DEF AllAgreed, Agreed
        <5> QED BY <5>1, <5>2
      <4>4. \A q \in Of(d) : q # r => request'[q] = request[q]
        BY <1>11 DEF Of
      <4>5. ApprovedInv(d)'
        BY <1>11, <1>12, <2>1, <4>1, <4>3, <4>4 DEF DocInv, ApprovedInv
      <4>6. PendingInv(d)'
        BY <1>11, <1>12, <2>1, <4>1, <4>4 DEF DocInv, PendingInv, Pending
      <4>7. RowInv(doc[d])' /\ IssuedInv(d)'
        BY <1>11, <1>12, <2>1, <4>1, <4>4 DEF DocInv, RowInv, IssuedInv
      <4>8. WaitingInv(d)'
        <5>1. doc[d].status # "waiting"
          BY <1>6, <4>1 DEF DocInv, ApprovedInv
        <5> QED BY <2>1, <5>1 DEF WaitingInv
      <4> QED BY <4>5, <4>6, <4>7, <4>8 DEF DocInv
    <3> QED BY <3>1, <3>2
  <2>4. new.idx >= 1
    BY <1>4, <1>10
  <2> HIDE DEF yes
  <2> QED BY <1>6, <1>9, <1>10, <1>15, <2>1, <2>2, <2>3, <2>4, WritesBoth
<1> QED BY <1>16, <1>17

--------------------------------------------------------------------------------
(* The theorems.                                                              *)

\* Every step keeps the invariant.
LEMMA StepInv == Inv /\ [Next]_vars => Inv'
<1> SUFFICES ASSUME Inv, [Next]_vars PROVE Inv'
  OBVIOUS
<1>1. CASE UNCHANGED vars
  <2>1. TypeOK'
    BY <1>1 DEF Inv, TypeOK, Pending, vars
  <2>2. RequestsInv' /\ LinkInv' /\ CallsInv'
    BY <1>1 DEF Inv, RequestsInv, LinkInv, CallsInv, RowCallInv, RequestCallInv, Of, Pending, vars
  <2>3. DocsInv'
    BY <1>1 DEF Inv, DocsInv, DocInv, RowInv, PendingInv, ApprovedInv, WaitingInv, IssuedInv,
                Of, Pending, vars
  <2> QED BY <2>1, <2>2, <2>3 DEF Inv
<1>2. CASE Next
  <2>1. PICK c \in Calls :
          \/ BeginSubmit(c) \/ BeginCancel(c) \/ BeginEdit(c) \/ BeginAcknowledge(c)
          \/ BeginDirect(c) \/ BeginDecision(c) \/ BeginWithdraw(c)
          \/ SubmitToEngine(c) \/ SubmitDirect(c)
          \/ Approve(c) \/ Reject(c) \/ Withdraw(c)
          \/ Cancel(c) \/ Edit(c) \/ Acknowledge(c) \/ Direct(c)
          \/ Fail(c)
    BY <1>2 DEF Next
  <2> QED BY <2>1, Begins, BeginsOnRequest, Fails, SubmitsToEngine, SubmitsDirect,
             Approves, Rejects, Withdraws, Cancels, Edits, Acknowledges, DecidesDirect
<1> QED BY <1>1, <1>2

\* The invariant holds in every state.
THEOREM Invariance == Spec => []Inv
BY InitInv, StepInv, PTL DEF Spec

\* Type correctness: whatever calls meet, every row keeps its type, and a pending request
\* is at one of its steps.
THEOREM TypeCorrect == Spec => []TypeOK
<1>1. Inv => TypeOK
  BY DEF Inv
<1> QED BY <1>1, Invariance, PTL

\* A document that no call has overtaken another one on is posted, sent or approved at
\* most once (posting and sending in admin/approvals.ts and the documents' handlers).
THEOREM AtMostOnce == Spec => []IssuedOnce
<1>1. Inv => IssuedOnce
  BY DEF Inv, DocsInv, DocInv, IssuedInv, IssuedOnce
<1> QED BY <1>1, Invariance, PTL

\* What the engine issues, each step's approvers have agreed to, and none of them is the
\* submitter; no later submission of the document exists (recordDecision and
\* finaliseApprovedDocument).
THEOREM Consent == Spec => []IssuedWithConsent
<1>1. Inv => IssuedWithConsent
  <2> SUFFICES ASSUME Inv, NEW d \in Docs \ overtaken, via[d] # Never
               PROVE  LET req == request[via[d]]
                      IN  /\ req.doc = d /\ req.status = "approved"
                          /\ \A n \in DOMAIN req.steps :
                               /\ req.steps[n].status = "approved"
                               /\ req.steps[n].by \in req.steps[n].approvers \ {req.submitter}
                          /\ \A r \in DOMAIN request : request[r].doc = d => r <= via[d]
    BY DEF IssuedWithConsent
  <2>1. DocInv(d)
    BY DEF Inv, DocsInv
  <2>2. /\ via[d] \in DOMAIN request /\ request[via[d]].doc = d
        /\ request[via[d]].status = "approved"
        /\ \A r \in Of(d) : r <= via[d]
    BY <2>1 DEF DocInv, IssuedInv, Of
  <2>3. AllAgreed(request[via[d]])
    BY <2>1, <2>2 DEF DocInv, ApprovedInv, Of
  <2> QED BY <2>2, <2>3 DEF AllAgreed, Agreed, Of
<1> QED BY <1>1, Invariance, PTL

\* The queue of approvals and the documents agree: no pending request without a document
\* that waits for it, and no document that waits for nobody.
THEOREM QueueAgrees == Spec => []QueueTies
<1>1. Inv => QueueTies
  <2> SUFFICES ASSUME Inv PROVE QueueTies
    OBVIOUS
  <2>1. ASSUME NEW r \in DOMAIN request, Pending(r), request[r].doc \notin overtaken
        PROVE  doc[request[r].doc].status = "waiting" /\ doc[request[r].doc].link = r
    <3>1. request[r].doc \in Docs
      BY RequestFacts DEF Inv, RequestType
    <3>2. r \in Of(request[r].doc) /\ DocInv(request[r].doc)
      BY <2>1, <3>1 DEF Inv, DocsInv, Of
    <3> QED BY <2>1, <3>2 DEF DocInv, PendingInv
  <2>2. ASSUME NEW d \in Docs \ overtaken, doc[d].status = "waiting", doc[d].kind # "claim"
        PROVE  Waited(doc[d])
    <3>1. /\ DocInv(d) /\ doc[d].link # Never /\ Pending(doc[d].link)
      BY <2>2 DEF Inv, DocsInv, DocInv, WaitingInv
    <3>2. doc[d].link \in Of(d)
      BY <3>1 DEF Inv, LinkInv
    <3>3. Halfway(request[doc[d].link])
      BY <3>1, <3>2 DEF DocInv, PendingInv
    <3>4. /\ request[doc[d].link].idx \in DOMAIN request[doc[d].link].steps
          /\ request[doc[d].link].idx \in Nat
      BY <3>1, <3>2, RequestFacts DEF Inv, TypeOK, Of, RequestType
    <3>5. request[doc[d].link].steps[request[doc[d].link].idx].status = "pending"
      BY <3>3, <3>4 DEF Halfway
    <3> QED BY <3>1, <3>5 DEF Waited
  <2> QED BY <2>1, <2>2 DEF QueueTies
<1> QED BY <1>1, Invariance, PTL

\* A decision on a request that is decided already repeats it or overtakes it; a cancel
\* leaves it as it is.
LEMMA FinalStep ==
  ASSUME Inv, Next, NEW r \in DOMAIN request, ~Pending(r), request[r].doc \notin overtaken'
  PROVE  request'[r].status = request[r].status
<1>1. PICK c \in Calls :
        \/ UNCHANGED request
        \/ SubmitToEngine(c)
        \/ Approve(c) \/ Reject(c) \/ Withdraw(c) \/ Cancel(c)
  BY Zenon DEF Next, BeginSubmit, BeginCancel, BeginEdit, BeginAcknowledge, BeginDirect,
         BeginDecision, BeginWithdraw, BeginOn, Begin, SubmitDirect, Edit, Acknowledge,
         Direct, Fail
<1>2. /\ request \in Seq(RequestType) /\ request[r] \in RequestType
      /\ DOMAIN request = 1 .. Len(request) /\ Len(request) \in Nat
  BY RequestFacts DEF Inv, TypeOK
<1>3. CASE SubmitToEngine(c)
  <2>1. PICK new : request' = Append(request, new)
    BY <1>3 DEF SubmitToEngine
  <2> QED BY <1>2, <2>1
<1>4. CASE Approve(c)
  <2>1. PICK k \in DOMAIN request : k = txn[c].req
    <3>1. txn[c] # Idle /\ txn[c].act \in RequestActs
      BY <1>4, Zenon DEF Approve, Doing, RequestActs
    <3> QED BY <3>1, RequestCall
  <2>2. PICK last \in BOOLEAN :
          request' = [request EXCEPT ![k].steps[txn[c].at].status = "approved",
                                     ![k].steps[txn[c].at].by     = txn[c].user,
                                     ![k].idx    = txn[c].at + 1,
                                     ![k].status = IF last THEN "approved" ELSE @]
    BY <1>4, <2>1, Zenon DEF Approve, IsLast
  <2>3. Overtake(request[k].doc, \/ request[k].status \in {"rejected", "cancelled"}
                                 \/ Pending(k) /\ request[k].idx > txn[c].at + 1)
    BY <1>4, <2>1, Zenon DEF Approve
  <2>4. CASE r = k
    <3>1. request[r].status = "approved"
      BY <1>2, <2>3, <2>4 DEF Overtake, Pending, RequestType
    <3> QED BY <1>2, <2>2, <2>4, <3>1 DEF RequestType
  <2>5. CASE r # k
    BY <2>2, <2>5
  <2> QED BY <2>4, <2>5
<1>5. CASE Reject(c) \/ Withdraw(c)
  <2>1. PICK k \in DOMAIN request : k = txn[c].req
    <3>1. txn[c] # Idle /\ txn[c].act \in RequestActs
      BY <1>5, Zenon DEF Reject, Withdraw, Doing, RequestActs
    <3> QED BY <3>1, RequestCall
  <2>2. Overtake(request[k].doc, ~Pending(k))
    BY <1>5, <2>1 DEF Reject, Withdraw
  <2>3. r # k
    BY <2>2 DEF Overtake
  <2>4. request'[r] = request[r]
    BY <1>5, <2>1, <2>3 DEF Reject, Withdraw
  <2> QED BY <2>4
<1>6. CASE Cancel(c)
  <2>1. PICK k : \/ request' = request
                 \/ request' = [request EXCEPT ![k] = CancelRequest(@)]
    BY <1>6 DEF Cancel
  <2>2. CancelRequest(request[r]).status = request[r].status
    BY <1>2, CancelFacts DEF Pending
  <2> QED BY <2>1, <2>2
<1> QED BY <1>1, <1>3, <1>4, <1>5, <1>6

\* Whoever decides or cancels a request at the same time, its outcome stays what it is.
THEOREM OutcomeStays == Spec => OutcomeIsFinal
<1>1. Inv /\ [Next]_vars =>
        [\A r \in DOMAIN request :
           ~Pending(r) /\ request[r].doc \notin overtaken' =>
             request'[r].status = request[r].status]_vars
  BY FinalStep
<1> QED BY <1>1, Invariance, PTL DEF Spec, OutcomeIsFinal

--------------------------------------------------------------------------------
(* The refinement of DocumentLife.                                            *)

Out == {"issued", "acknowledged"}

\* Nothing leads back from what is out or cancelled.
Onward(old, new) ==
  /\ old \in Out => new \in Out \cup {"cancelled"}
  /\ old = "cancelled" => new = "cancelled"

\* A step goes on with one document, or overtakes it.
GoesOn(d) ==
  /\ overtaken \subseteq overtaken' /\ overtaken' \subseteq overtaken \cup {d}
  /\ \A e \in Docs \ {d} : doc'[e] = doc[e]
  /\ d \notin overtaken' => Onward(doc[d].status, doc'[d].status)

\* The documents' own handlers go on with it.
LEMMA RowGoesOn ==
  ASSUME Inv, NEW c \in Calls,
         \/ SubmitDirect(c) \/ Edit(c) \/ Acknowledge(c) \/ Direct(c)
         \/ SubmitToEngine(c) \/ Cancel(c)
  PROVE  \E d \in Docs : GoesOn(d)
<1>1. txn[c] # Idle /\ txn[c].act \in RowActs
  BY DEF SubmitDirect, Edit, Acknowledge, Direct, SubmitToEngine, Cancel, Doing, RowActs
<1>2. PICK d \in Docs : d = txn[c].doc
  BY <1>1, RowCall
<1>3. /\ doc[d] \in RowType /\ doc \in [Docs -> RowType]
      /\ Taken(txn[c].act, txn[c].read)
      /\ txn[c].read.kind = doc[d].kind
  BY <1>1, <1>2, RowCall DEF RowCallInv, Inv, TypeOK
<1>4. PICK yes, row : Overtake(d, yes) /\ doc' = [doc EXCEPT ![d] = row]
  <2>1. \E yes : Overtake(d, yes)
    BY <1>2 DEF SubmitDirect, Edit, Acknowledge, Direct, SubmitToEngine, Cancel
  <2>2. \E row : doc' = [doc EXCEPT ![d] = row]
    BY <1>2, <1>3, Zenon
       DEF SubmitDirect, Edit, Acknowledge, Direct, SubmitToEngine, Cancel, Issue
  <2> QED BY <2>1, <2>2
<1>5. /\ overtaken \subseteq overtaken' /\ overtaken' \subseteq overtaken \cup {d}
      /\ \A e \in Docs \ {d} : doc'[e] = doc[e]
  BY <1>3, <1>4 DEF Overtake
<1>6. ASSUME d \notin overtaken' PROVE Onward(doc[d].status, doc'[d].status)
  <2>1. CASE SubmitDirect(c) \/ Edit(c) \/ Acknowledge(c) \/ Direct(c)
    <3>1. ~Moved(c)
      BY <1>2, <1>6, <2>1 DEF SubmitDirect, Edit, Acknowledge, Direct, Overtake
    <3>2. Taken(txn[c].act, doc[d])
      BY <1>2, <1>3, <3>1 DEF Moved
    <3>3. CASE SubmitDirect(c) \/ Edit(c) \/ Direct(c)
      <4>1. doc[d].status \in {"draft", "rejected", "waiting"}
        BY <3>2, <3>3 DEF SubmitDirect, Edit, Direct, Doing, Taken, Submittable, Editable,
                          Decidable
      <4> QED BY <4>1 DEF Onward, Out
    <3>4. CASE Acknowledge(c)
      <4>1. doc'[d].status = "acknowledged" /\ doc[d].status # "cancelled"
        BY <1>2, <1>3, <3>2, <3>4 DEF Acknowledge, Doing, Taken, Acknowledgeable, RowType
      <4> QED BY <4>1 DEF Onward, Out
    <3> QED BY <2>1, <3>3, <3>4
  <2>2. CASE SubmitToEngine(c)
    <3>1. Moved(c) => doc[d].status = "waiting"
      BY <1>2, <1>6, <2>2 DEF SubmitToEngine, Overtake
    <3>2. Taken("submit", txn[c].read)
      BY <1>3, <2>2 DEF SubmitToEngine, Doing
    <3>3. doc[d].status \in {"draft", "waiting"}
      BY <1>2, <3>1, <3>2 DEF Moved, Taken, Submittable
    <3> QED BY <3>3 DEF Onward, Out
  <2>3. CASE Cancel(c)
    <3>1. doc'[d].status = "cancelled"
      BY <1>2, <1>3, <2>3, CancelledRow DEF Cancel
    <3> QED BY <3>1 DEF Onward, Out
  <2> QED BY <2>1, <2>2, <2>3
<1> QED BY <1>5, <1>6 DEF GoesOn

\* So do decisions and withdrawals.
LEMMA RequestGoesOn ==
  ASSUME Inv, NEW c \in Calls, Approve(c) \/ Reject(c) \/ Withdraw(c)
  PROVE  \E d \in Docs : GoesOn(d)
<1>1. txn[c] # Idle /\ txn[c].act \in RequestActs
  BY Zenon DEF Approve, Reject, Withdraw, Doing, RequestActs
<1>2. PICK r \in DOMAIN request : r = txn[c].req
  BY <1>1, RequestCall
<1>3. PICK d \in Docs : d = request[r].doc
  BY <1>1, <1>2, RequestCall
<1>4. /\ r \in Of(d) /\ doc \in [Docs -> RowType]
      /\ d \notin overtaken => DocInv(d)
  BY <1>1, <1>2, <1>3, RequestCall DEF Inv, TypeOK
<1>5. CASE Approve(c)
  <2>1. \/ doc' = doc
        \/ doc[d].status = "waiting" /\ doc' = [doc EXCEPT ![d] = Issued(@)]
    BY <1>2, <1>3, <1>5, Zenon DEF Approve, Ready, Issue
  <2>2. \E yes : Overtake(d, yes)
    BY <1>2, <1>3, <1>5, Zenon DEF Approve
  <2>3. /\ \A e \in Docs \ {d} : doc'[e] = doc[e]
        /\ doc[d].status = "waiting" \/ doc'[d] = doc[d]
    BY <1>4, <2>1
  <2>4. Onward(doc[d].status, doc'[d].status)
    BY <2>3 DEF Onward, Out
  <2> QED BY <2>2, <2>3, <2>4 DEF GoesOn, Overtake
<1>6. CASE Reject(c) \/ Withdraw(c)
  <2>1. PICK row : doc' = [doc EXCEPT ![d] = row]
    BY <1>2, <1>3, <1>4, <1>6, Zenon DEF Reject, Withdraw
  <2>2. Overtake(d, ~Pending(r))
    BY <1>2, <1>3, <1>6, Zenon DEF Reject, Withdraw
  <2>3. ASSUME d \notin overtaken' PROVE Onward(doc[d].status, doc'[d].status)
    <3>1. Pending(r) /\ d \notin overtaken
      BY <2>2, <2>3 DEF Overtake
    <3>2. doc[d].status = "waiting"
      BY <1>4, <3>1 DEF DocInv, PendingInv
    <3> QED BY <3>2 DEF Onward, Out
  <2> QED BY <1>4, <2>1, <2>2, <2>3 DEF GoesOn, Overtake
<1> QED BY <1>5, <1>6

\* The phase of a document, by its status.
LEMMA PhaseFacts ==
  ASSUME doc \in [Docs -> RowType], NEW d \in Docs
  PROVE  IF d \in overtaken THEN Phase(d) = "overtaken" ELSE
         /\ doc[d].status = "waiting" => Phase(d) = "waiting"
         /\ doc[d].status \in {"draft", "rejected"} => Phase(d) = "open"
         /\ doc[d].status \in Out => Phase(d) = "out"
         /\ doc[d].status = "cancelled" => Phase(d) = "cancelled"
         /\ Phase(d) \in {"open", "waiting", "out", "cancelled"}
<1>1. doc[d].status \in
        {"draft", "waiting", "issued", "rejected", "cancelled", "acknowledged"}
  BY DEF RowType
<1> QED BY <1>1 DEF Phase, Out

\* It goes from "open" and "waiting" to anywhere, from "out" to "cancelled", and to
\* "overtaken" for good.
LEMMA PhaseMoves ==
  ASSUME TypeOK, TypeOK', NEW d \in Docs, GoesOn(d)
  PROVE  /\ \A e \in Docs \ {d} : Phase(e)' = Phase(e)
         /\ \/ Phase(d)' = Phase(d)
            \/ Phase(d) \in Life!Phases /\ Phase(d)' = "overtaken"
            \/ Phase(d) \in {"open", "waiting"} /\ Phase(d)' = "out"
            \/ Phase(d) \in {"open", "waiting", "out"} /\ Phase(d)' = "cancelled"
            \/ Phase(d) = "open" /\ Phase(d)' = "waiting"
            \/ Phase(d) = "waiting" /\ Phase(d)' = "open"
<1>1. ASSUME NEW e \in Docs \ {d} PROVE Phase(e)' = Phase(e)
  <2>1. doc'[e] = doc[e]
    BY DEF GoesOn
  <2>2. CASE e \in overtaken
    <3>1. e \in overtaken'
      BY <2>2 DEF GoesOn
    <3> QED BY <2>2, <3>1 DEF Phase
  <2>3. CASE e \notin overtaken
    <3>1. e \notin overtaken'
      BY <2>3 DEF GoesOn
    <3>2. doc[e].status \in
            {"draft", "waiting", "issued", "rejected", "cancelled", "acknowledged"}
      BY DEF TypeOK, RowType
    <3> QED BY <2>1, <2>3, <3>1, <3>2 DEF Phase
  <2> QED BY <2>2, <2>3
<1>2. doc \in [Docs -> RowType] /\ doc' \in [Docs -> RowType]
  BY DEF TypeOK
<1>3. /\ doc[d].status \in
            {"draft", "waiting", "issued", "rejected", "cancelled", "acknowledged"}
      /\ doc'[d].status \in
            {"draft", "waiting", "issued", "rejected", "cancelled", "acknowledged"}
  BY <1>2 DEF RowType
<1>4. IF d \in overtaken THEN Phase(d) = "overtaken" ELSE
      /\ doc[d].status = "waiting" => Phase(d) = "waiting"
      /\ doc[d].status \in {"draft", "rejected"} => Phase(d) = "open"
      /\ doc[d].status \in Out => Phase(d) = "out"
      /\ doc[d].status = "cancelled" => Phase(d) = "cancelled"
      /\ Phase(d) \in {"open", "waiting", "out", "cancelled"}
  BY <1>2, PhaseFacts
<1>5. IF d \in overtaken' THEN Phase(d)' = "overtaken" ELSE
      /\ doc'[d].status = "waiting" => Phase(d)' = "waiting"
      /\ doc'[d].status \in {"draft", "rejected"} => Phase(d)' = "open"
      /\ doc'[d].status \in Out => Phase(d)' = "out"
      /\ doc'[d].status = "cancelled" => Phase(d)' = "cancelled"
  BY <1>3 DEF Phase, Out
<1>6. \/ Phase(d)' = Phase(d)
      \/ Phase(d) \in Life!Phases /\ Phase(d)' = "overtaken"
      \/ Phase(d) \in {"open", "waiting"} /\ Phase(d)' = "out"
      \/ Phase(d) \in {"open", "waiting", "out"} /\ Phase(d)' = "cancelled"
      \/ Phase(d) = "open" /\ Phase(d)' = "waiting"
      \/ Phase(d) = "waiting" /\ Phase(d)' = "open"
  <2>1. CASE d \in overtaken'
    BY <1>4, <1>5, <2>1 DEF Life!Phases
  <2>2. CASE d \notin overtaken'
    <3>1. d \notin overtaken /\ Onward(doc[d].status, doc'[d].status)
      BY <2>2 DEF GoesOn
    <3>2. CASE doc[d].status \in Out
      BY <1>3, <1>4, <1>5, <2>2, <3>1, <3>2 DEF Onward, Out
    <3>3. CASE doc[d].status = "cancelled"
      BY <1>3, <1>4, <1>5, <2>2, <3>1, <3>3 DEF Onward
    <3>4. CASE doc[d].status \in {"draft", "rejected", "waiting"}
      <4>1. Phase(d) \in {"open", "waiting"}
        BY <1>4, <3>1, <3>4
      <4>2. Phase(d)' \in {"open", "waiting", "out", "cancelled"}
        BY <1>3, <1>5, <2>2 DEF Out
      <4> QED BY <4>1, <4>2
    <3> QED BY <1>3, <3>2, <3>3, <3>4 DEF Out
  <2> QED BY <2>1, <2>2
<1> QED BY <1>1, <1>6

\* So a step that goes on with a document is one of DocumentLife or none.
LEMMA StepRefines ==
  ASSUME TypeOK, TypeOK', NEW d \in Docs, GoesOn(d)
  PROVE  [Life!Next]_([e \in Docs |-> Phase(e)])
<1> DEFINE Allowed(from, to) == Phase(d) \in from /\ Phase(d)' = to
<1>1. \A e \in Docs \ {d} : Phase(e)' = Phase(e)
  BY PhaseMoves
<1>2. \A to : Phase(d)' = to =>
        [e \in Docs |-> Phase(e)]' = [[e \in Docs |-> Phase(e)] EXCEPT ![d] = to]
  BY <1>1
<1>3. CASE Phase(d)' = Phase(d)
  BY <1>1, <1>3
<1>4. CASE Phase(d) \in Life!Phases /\ Phase(d)' = "overtaken"
  BY <1>2, <1>4 DEF Life!Next, Life!Overtake, Life!Move
<1>5. CASE Phase(d) \in {"open", "waiting"} /\ Phase(d)' = "out"
  BY <1>2, <1>5 DEF Life!Next, Life!Issue, Life!Move
<1>6. CASE Phase(d) \in {"open", "waiting", "out"} /\ Phase(d)' = "cancelled"
  BY <1>2, <1>6 DEF Life!Next, Life!Cancel, Life!Move
<1>7. CASE Phase(d) = "open" /\ Phase(d)' = "waiting"
  BY <1>2, <1>7 DEF Life!Next, Life!Submit, Life!Move
<1>8. CASE Phase(d) = "waiting" /\ Phase(d)' = "open"
  BY <1>2, <1>8 DEF Life!Next, Life!Return, Life!Move
<1> QED BY <1>3, <1>4, <1>5, <1>6, <1>7, <1>8, PhaseMoves

\* The engine and the documents' handlers implement DocumentLife: what is out is never a
\* draft again and what is cancelled is never issued, as long as no call has overtaken
\* another one on the document.
THEOREM Refinement == Spec => NoWayBack
<1>1. Init => Life!Init
  <2> SUFFICES ASSUME Init PROVE Life!Init
    OBVIOUS
  <2>1. \A d \in Docs : doc[d].status = "draft" /\ d \notin overtaken
    BY DEF Init, DraftRow
  <2>2. \A d \in Docs : Phase(d) = "open"
    BY <2>1 DEF Phase
  <2> QED BY <2>2 DEF Life!Init
<1>2. Inv /\ Inv' /\ [Next]_vars => [Life!Next]_([d \in Docs |-> Phase(d)])
  <2> SUFFICES ASSUME Inv, Inv', [Next]_vars
               PROVE  [Life!Next]_([d \in Docs |-> Phase(d)])
    OBVIOUS
  <2>1. CASE UNCHANGED <<doc, overtaken>>
    <3>1. \A d \in Docs : Phase(d)' = Phase(d)
      BY <2>1 DEF Phase
    <3> QED BY <3>1
  <2>2. CASE \E d \in Docs : GoesOn(d)
    BY <2>2, StepRefines DEF Inv
  <2>3. \/ UNCHANGED <<doc, overtaken>>
        \/ \E d \in Docs : GoesOn(d)
    <3>1. CASE UNCHANGED vars
      BY <3>1 DEF vars
    <3>2. CASE Next
      <4>1. PICK c \in Calls :
              \/ UNCHANGED <<doc, overtaken>>
              \/ SubmitDirect(c) \/ Edit(c) \/ Acknowledge(c) \/ Direct(c)
              \/ SubmitToEngine(c) \/ Cancel(c)
              \/ Approve(c) \/ Reject(c) \/ Withdraw(c)
        BY <3>2, Zenon DEF Next, BeginSubmit, BeginCancel, BeginEdit, BeginAcknowledge, BeginDirect,
                   BeginDecision, BeginWithdraw, BeginOn, Begin, Fail
      <4> QED BY <4>1, RowGoesOn, RequestGoesOn
    <3> QED BY <3>1, <3>2
  <2> QED BY <2>1, <2>2, <2>3
<1> QED BY <1>1, <1>2, Invariance, PTL DEF Spec, NoWayBack, Life!Spec
================================================================================
