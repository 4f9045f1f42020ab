---------------------------- MODULE Requirements ----------------------------
(***************************************************************************)
(* requirement-service: requirements and their revisions, and the items    *)
(* around them: review rounds, baselines, change requests.  A unit of work *)
(* loads all items when the request arrives and writes all of them back;   *)
(* requirements it selects when they are needed.                           *)
(***************************************************************************)
EXTENDS Naturals, Sequences, FiniteSets

CONSTANTS
    Requirements, Reviews, Baselines, Changes,   \* ids
    Requests,     \* HTTP requests; what a request writes has its name
    Columns,      \* the columns a patch may name: title, description, ...
    Reviewers,    \* the reviewers a round is opened with
    None

ASSUME NamesAssumption ==
    /\ None \notin Requests \cup Requirements \cup Changes
    /\ Reviews \cap Baselines = {} /\ Reviews \cap Changes = {} /\ Baselines \cap Changes = {}
    /\ IsFiniteSet(Reviews)

Items == Reviews \cup Baselines \cup Changes

VARIABLES
    row,          \* requirements
    revisions,    \* requirement_revisions, by requirement
    items,        \* requirement_review_rounds, _baselines, _change_requests
    req

vars == <<row, revisions, items, req>>

-----------------------------------------------------------------------------

Statuses == {"draft", "in_review", "rejected", "approved", "active", "completed", "canceled"}

(* What a patch or a change writes to a column has its name.               *)
Content == [Columns -> Requests \cup Changes \cup {None}]

Written(value) == [k \in Columns |-> value]

Row == [status: Statuses, content: Content, revision: Nat, baselined: BOOLEAN, version: Nat]

Revision == [no: Nat, content: Content]

(* A patch names at least one column.                                      *)
Patches == SUBSET Columns \ {{}}

Decision == [reviewer: Reviewers, decision: {"approved", "rejected"}]

Item == [status: {"open", "approved", "rejected"}, of: Requirements, round: Nat,
         decisions: Seq(Decision)]
        \cup [status: {"draft", "active"}, version: Nat]
        \cup [status: {"draft", "in_review", "approved", "rejected", "applied", "canceled"},
              of: Requirements, patch: Patches, version: Nat]

ASSUME NoneAssumption == None \notin Row \cup Revision \cup Item

(* Requirement.transition; the evidence for a move is what the client says *)
(* it is.                                                                  *)
Lifecycle ==
    [submit_review |-> [from |-> {"draft", "rejected"}, to |-> "in_review"],
     approve |-> [from |-> {"in_review"}, to |-> "approved"],
     reject |-> [from |-> {"in_review"}, to |-> "rejected"],
     return_to_draft |-> [from |-> {"rejected"}, to |-> "draft"],
     activate |-> [from |-> {"approved"}, to |-> "active"],
     complete |-> [from |-> {"active"}, to |-> "completed"],
     cancel |-> [from |-> {"active"}, to |-> "canceled"],
     reopen |-> [from |-> {"completed"}, to |-> "active"]]

(* ChangeRequest.transition                                                *)
Governance ==
    [submit |-> [from |-> {"draft"}, to |-> "in_review"],
     approve |-> [from |-> {"in_review"}, to |-> "approved"],
     reject |-> [from |-> {"in_review"}, to |-> "rejected"],
     apply |-> [from |-> {"approved"}, to |-> "applied"],
     cancel |-> [from |-> {"draft", "in_review"}, to |-> "canceled"]]

(* image: the items loaded, with the request's own changes; copy: the      *)
(* requirement as it will be saved; new: the revision to be inserted;      *)
(* base, rows: what the commit found when it selected the rows once more.  *)
Request == [pc: {"idle", "act", "save", "flush", "commit", "done"},
            on: Requirements \cup {None},
            image: [Items -> Item \cup {None}], copy: Row \cup {None},
            new: Revision \cup {None}, base: Row \cup {None},
            rows: [Items -> Item \cup {None}]]

NoItems == [x \in Items |-> None]

Idle == [pc |-> "idle", on |-> None, image |-> NoItems, copy |-> None, new |-> None,
         base |-> None, rows |-> NoItems]

(* Every variable has its type, and an item has the columns of its table.  *)
TypeOK ==
    /\ row \in [Requirements -> Row \cup {None}]
    /\ revisions \in [Requirements -> SUBSET Revision]
    /\ items \in [Items -> Item \cup {None}]
    /\ \A x \in Items : items[x] # None =>
         ("decisions" \in DOMAIN items[x]) = (x \in Reviews)
    /\ req \in [Requests -> Request]

(* A round just opened, a draft, or a change that may be applied.          *)
Initially(x) ==
    IF x \in Reviews
    THEN [status: {"open"}, of: Requirements, round: {1}, decisions: {<<>>}]
    ELSE IF x \in Baselines THEN [status: {"draft"}, version: {1}]
    ELSE [status: {"approved"}, of: Requirements, patch: Patches, version: {3}]

(* Requirements of two statuses with their first revision; whether one is  *)
(* baselined is seeded, no code sets it.                                   *)
Init ==
    /\ row \in [Requirements ->
           {None} \cup [status: {"draft", "active"}, content: {Written(None)},
                        revision: {1}, baselined: BOOLEAN, version: {1}]]
    /\ revisions = [q \in Requirements |->
           IF row[q] = None THEN {} ELSE {[no |-> 1, content |-> Written(None)]}]
    /\ items \in {f \in [Items -> (UNION {Initially(x) : x \in Items}) \cup {None}] :
           \A x \in Items : f[x] # None =>
              f[x] \in Initially(x) /\ ("of" \in DOMAIN f[x] => row[f[x].of] # None)}
    /\ req = [r \in Requests |-> Idle]

-----------------------------------------------------------------------------

Done(r) == req' = [req EXCEPT ![r] = [Idle EXCEPT !.pc = "done"]]

(* The unit of work is created.                                            *)
Enter(r) ==
    /\ req[r].pc = "idle"
    /\ req' = [req EXCEPT ![r] = [@ EXCEPT !.pc = "act", !.image = items]]
    /\ UNCHANGED <<row, revisions, items>>

(* The service has run: the request goes on to save.                       *)
Acted(r, q, image, copy, new) ==
    /\ req[r].pc = "act"
    /\ req' = [req EXCEPT ![r] = [@ EXCEPT !.pc = "save", !.on = q, !.image = image,
                                           !.copy = copy, !.new = new]]
    /\ UNCHANGED <<row, revisions, items>>

(* An id nobody uses: it is made by uuid4.                                 *)
Fresh(x) == items[x] = None /\ \A r \in Requests : req[r].image[x] = None

(* The items change, the requirement is only read.                         *)
OnlyItem(r, x, item) == Acted(r, None, [req[r].image EXCEPT ![x] = item], None, None)

Numbers(q) == {v.no : v \in revisions[q]}

Frozen(x) == [no |-> x.revision, content |-> x.content]

Create(r) ==
    \E q \in Requirements :
        /\ row[q] = None /\ \A p \in Requests : req[p].on # q
        /\ LET x == [status |-> "draft", content |-> Written(r), revision |-> 1,
                     baselined |-> FALSE, version |-> 1]
           IN  Acted(r, q, req[r].image, x, Frozen(x))

Applied(x, columns, value) ==
    [x EXCEPT !.content = [k \in Columns |-> IF k \in columns THEN value ELSE @[k]],
              !.revision = @ + 1, !.version = @ + 1]

ApplyFieldsUnfrozen(r, q, image, columns, value) ==   \* mutated: no revision is appended
    Acted(r, q, image, Applied(row[q], columns, value), None)

(* The fields are set and the whole content is frozen.                     *)
ApplyFields(r, q, image, columns, value) ==
    LET x == Applied(row[q], columns, value) IN Acted(r, q, image, x, Frozen(x))

NewChangeUnversioned(q, patch) ==   \* mutated: without a version
    [status |-> "draft", of |-> q, patch |-> patch]

NewChange(q, patch) == [status |-> "draft", of |-> q, patch |-> patch, version |-> 1]

Patch(r) ==
    \E q \in Requirements, patch \in Patches :
        /\ row[q] # None
        /\ IF row[q].baselined
           THEN \E c \in Changes : Fresh(c) /\ OnlyItem(r, c, NewChange(q, patch))
           ELSE ApplyFields(r, q, req[r].image, patch, r)

Transition(r) ==
    \E q \in Requirements, action \in DOMAIN Lifecycle :
        /\ row[q] # None /\ row[q].status \in Lifecycle[action].from
        /\ Acted(r, q, req[r].image,
                 [row[q] EXCEPT !.status = Lifecycle[action].to, !.version = @ + 1], None)

CreateReview(r) ==
    \E q \in Requirements, w \in Reviews :
        /\ row[q] # None /\ Fresh(w)
        /\ LET rounds == {v \in Reviews : req[r].image[v] # None /\ req[r].image[v].of = q} IN
           OnlyItem(r, w, [status |-> "open", of |-> q, round |-> Cardinality(rounds) + 1,
                           decisions |-> <<>>])

(* ReviewRound.decide, and close once every reviewer has decided.          *)
Verdict(decisions) ==
    LET latest == {decisions[n].decision : n \in {m \in DOMAIN decisions :
                      \A k \in DOMAIN decisions : decisions[k].reviewer = decisions[m].reviewer => k <= m}}
    IN  IF {decisions[n].reviewer : n \in DOMAIN decisions} # Reviewers THEN "open"
        ELSE IF "rejected" \in latest THEN "rejected" ELSE "approved"

DecideReview(r) ==
    \E w \in Reviews, d \in Decision :
        LET x == req[r].image[w] IN
        /\ x # None /\ x.status = "open"
        /\ LET decisions == Append(x.decisions, d) IN
           OnlyItem(r, w, [x EXCEPT !.decisions = decisions, !.status = Verdict(decisions)])

CreateBaseline(r) ==
    \E b \in Baselines : Fresh(b) /\ OnlyItem(r, b, [status |-> "draft", version |-> 1])

ActivateBaseline(r) ==
    \E b \in Baselines :
        LET x == req[r].image[b] IN
        /\ x # None /\ x.status = "draft"
        /\ OnlyItem(r, b, [x EXCEPT !.status = "active", !.version = @ + 1])

CreateChange(r) ==
    \E q \in Requirements, c \in Changes, patch \in Patches :
        row[q] # None /\ Fresh(c) /\ OnlyItem(r, c, NewChange(q, patch))

Governed(x, action) == [x EXCEPT !.status = Governance[action].to, !.version = @ + 1]

TransitionChange(r) ==
    \E c \in Changes, action \in DOMAIN Governance :
        LET x == req[r].image[c] IN
        /\ x # None /\ x.status \in Governance[action].from
        /\ IF action # "apply" THEN OnlyItem(r, c, Governed(x, action))
           ELSE ApplyFields(r, x.of, [req[r].image EXCEPT ![c] = Governed(x, action)], x.patch, c)

(* An If-Match that does not fit, a refused move, a failed statement.      *)
Refuse(r) ==
    /\ req[r].pc \in {"act", "save", "flush", "commit"}
    /\ Done(r)
    /\ UNCHANGED <<row, revisions, items>>

-----------------------------------------------------------------------------
(* RequirementMapping.__setitem__ and SqlAlchemyUnitOfWork.commit *)

Holding == {"flush", "commit"}

NumberUnchecked(r) == TRUE   \* mutated: revisions without their unique constraint

(* The number of a revision is unique; one that another transaction is     *)
(* inserting is waited for.                                                *)
NumberFree(r) ==
    req[r].new # None =>
        /\ req[r].new.no \notin Numbers(req[r].on)
        /\ ~\E q \in Requests \ {r} :
               /\ req[q].pc \in Holding /\ req[q].on = req[r].on
               /\ req[q].new # None /\ req[q].new.no = req[r].new.no

(* The revision is inserted, and the rows are selected once more.          *)
Save(r) ==
    /\ req[r].pc = "save" /\ NumberFree(r)
    /\ req' = [req EXCEPT ![r] = [@ EXCEPT !.pc = "flush", !.rows = items,
                                           !.base = IF req[r].on = None THEN None ELSE row[req[r].on]]]
    /\ UNCHANGED <<row, revisions, items>>

(* Columns in which the copy differs from what was selected are updated.   *)
Updated(now, base, copy) ==
    [k \in DOMAIN copy |-> IF copy[k] # base[k] THEN copy[k] ELSE now[k]]

Merged(now, base, copy) ==
    IF copy = None THEN now
    ELSE IF base = None THEN copy
    ELSE Updated(now, base, copy)

(* The content of a row is several columns.                                *)
MergedRow(now, base, copy) ==
    IF base = None THEN copy
    ELSE [Updated(now, base, copy) EXCEPT !.content = Updated(now.content, base.content, copy.content)]

Updates(r) ==
    {x \in Items : req[r].rows[x] # None /\ req[r].image[x] \notin {None, req[r].rows[x]}}
    \cup (IF req[r].base # None /\ req[r].copy # req[r].base THEN {req[r].on} ELSE {})

(* A row that another transaction has updated is waited for.               *)
Flush(r) ==
    /\ req[r].pc = "flush"
    /\ \A q \in Requests \ {r} : req[q].pc = "commit" => Updates(q) \cap Updates(r) = {}
    /\ req' = [req EXCEPT ![r].pc = "commit"]
    /\ UNCHANGED <<row, revisions, items>>

Commit(r) ==
    LET q == req[r].on IN
    /\ req[r].pc = "commit"
    /\ IF q = None THEN UNCHANGED <<row, revisions>>
       ELSE /\ row' = [row EXCEPT ![q] = MergedRow(@, req[r].base, req[r].copy)]
            /\ revisions' = [revisions EXCEPT ![q] = @ \cup ({req[r].new} \ {None})]
    /\ items' = [x \in Items |-> Merged(items[x], req[r].rows[x], req[r].image[x])]
    /\ Done(r)

Next ==
    \E r \in Requests :
        \/ Enter(r) \/ Create(r) \/ Patch(r) \/ Transition(r)
        \/ CreateReview(r) \/ DecideReview(r) \/ CreateBaseline(r) \/ ActivateBaseline(r)
        \/ CreateChange(r) \/ TransitionChange(r)
        \/ Save(r) \/ Flush(r) \/ Commit(r) \/ Refuse(r)

Spec == Init /\ [][Next]_vars

-----------------------------------------------------------------------------
(* Properties *)

(* Whatever requests write back over each other, every column of a         *)
(* requirement holds what some revision of it froze, the revision it names *)
(* is there, and revisions are numbered from 1 without a gap or a double.  *)
ContentIsFrozen ==
    \A q \in Requirements : row[q] # None =>
        /\ \A k \in Columns : \E v \in revisions[q] : v.content[k] = row[q].content[k]
        /\ row[q].revision \in Numbers(q)
        /\ Numbers(q) = 1..Cardinality(revisions[q])

(* A change request that was ever seen applied has left a revision with    *)
(* what it proposed, in a round, baseline or change written back at any    *)
(* later time too.                                                         *)
AppliedLeavesRevision ==
    \A c \in Changes : items[c] # None /\ items[c].status = "applied" =>
        \E v \in revisions[items[c].of] : \A k \in items[c].patch : v.content[k] = c

(* What class Requirement says of itself: its content is captured in       *)
(* revisions. The code lets a request that has read the requirement long   *)
(* ago restore some columns of a content and not the others.               *)
ContentIsCaptured ==
    \A q \in Requirements : row[q] # None =>
        \E v \in revisions[q] : v.content = row[q].content

=============================================================================
