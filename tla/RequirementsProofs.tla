------------------------ MODULE RequirementsProofs ------------------------
(***************************************************************************)
(* The safety of Requirements for any number of ids and requests.          *)
(* Requests write back over each other what they read long ago, column by  *)
(* column, so the columns of a row may come from several revisions.  What  *)
(* is left of the content is said of each column: every copy and every row *)
(* holds in it what a revision froze, and revisions only come, each number *)
(* once.                                                                   *)
(***************************************************************************)
EXTENDS Requirements, Functions, FiniteSetTheorems, SequenceTheorems, TLAPS

Round == [status: {"open", "approved", "rejected"}, of: Requirements, round: Nat, decisions: Seq(Decision)]

Draft == [status: {"draft", "active"}, version: Nat]

Change == [status: {"draft", "in_review", "approved", "rejected", "applied", "canceled"},
           of: Requirements, patch: Patches, version: Nat]

(* The rows of the table that an item is in.                               *)
Table(x) == IF x \in Reviews THEN Round ELSE IF x \in Baselines THEN Draft ELSE Change

TableTyped(f) == \A x \in Items : f[x] = None \/ f[x] \in Table(x)

Saving(r) == req[r].pc \in {"save", "flush", "commit"}

(* The columns of a content that revisions froze.                          *)
Kept(vs, content) == \A k \in Columns : \E v \in vs : v.content[k] = content[k]

Captured(q, x) == x.revision \in Numbers(q) /\ Kept(revisions[q], x.content)

(* A revision has what a change proposed.                                  *)
Has(v, c, patch) == \A k \in patch : v.content[k] = c

Left(q, c, patch) == \E v \in revisions[q] : Has(v, c, patch)

(* Before the request has acted there is nothing to insert.                *)
Unwritten(r) == req[r].pc \in {"idle", "act"} => req[r].new = None

(* A revision to be inserted is that of the copy and follows a number that *)
(* is there; a copy without one is of a revision that is there.            *)
CopyFits(r) ==
    Saving(r) /\ req[r].on # None =>
        LET q == req[r].on  x == req[r].copy  v == req[r].new IN
        /\ x \in Row
        /\ IF v # None
           THEN /\ v \in Revision /\ v.no = x.revision /\ v.content = x.content
                /\ v.no = 1 \/ v.no - 1 \in Numbers(q)
           ELSE row[q] # None /\ Captured(q, x)

(* The row selected for the update is of a revision that is there, and the *)
(* number to be inserted is not.                                           *)
BaseFits(r) ==
    req[r].pc \in Holding /\ req[r].on # None =>
        LET q == req[r].on  b == req[r].base  v == req[r].new IN
        /\ b = None => v # None
        /\ b # None => b \in Row /\ row[q] # None /\ Captured(q, b)
        /\ v # None => v.no \notin Numbers(q)

ItemsFit(r) ==
    /\ TableTyped(req[r].image)
    /\ TableTyped(req[r].rows)
    /\ \A x \in Items : req[r].rows[x] # None => items[x] # None

(* A change keeps its requirement and its patch in every copy, and one     *)
(* that is applied there has left its revision or leaves it with the       *)
(* commit.                                                                 *)
ChangesFit(r) ==
    \A c \in Changes : req[r].image[c] # None =>
        LET q == req[r].image[c].of  patch == req[r].image[c].patch IN
        /\ row[q] # None
        /\ items[c] # None => items[c].of = q /\ items[c].patch = patch
        /\ req[r].image[c].status = "applied" =>
             \/ Left(q, c, patch)
             \/ req[r].new # None /\ Has(req[r].new, c, patch) /\ req[r].on = q /\ Saving(r)

Checked(r) ==
    /\ Unwritten(r)
    /\ CopyFits(r)
    /\ BaseFits(r)
    /\ ItemsFit(r)
    /\ ChangesFit(r)

(* A change that is in two copies is in the table.                         *)
OneCreator ==
    \A p, r \in Requests, c \in Changes :
        p # r /\ req[p].image[c] # None /\ req[r].image[c] # None => items[c] # None

(* No two requests insert one number.                                      *)
NumbersHeld ==
    \A p, r \in Requests :
        /\ p # r /\ req[p].pc \in Holding /\ req[r].pc \in Holding
        /\ req[p].on # None /\ req[p].on = req[r].on /\ req[p].new # None /\ req[r].new # None
        => req[p].new.no # req[r].new.no

(* Numbers go from 1 without a gap and tell revisions apart.               *)
RevisionsDense ==
    \A q \in Requirements :
        /\ \E n \in Nat : Numbers(q) = 1..n
        /\ \A v, w \in revisions[q] : v.no = w.no => v = w

RowsCaptured == \A q \in Requirements : row[q] # None => Captured(q, row[q])

ItemsKept ==
    /\ TableTyped(items)
    /\ \A c \in Changes : items[c] # None =>
          /\ row[items[c].of] # None
          /\ items[c].status = "applied" => Left(items[c].of, c, items[c].patch)

Inv ==
    /\ TypeOK
    /\ \A r \in Requests : Checked(r)
    /\ OneCreator
    /\ NumbersHeld
    /\ RevisionsDense
    /\ RowsCaptured
    /\ ItemsKept

-----------------------------------------------------------------------------
(* Rows and their columns *)

(* The tables share no row, and None is in none of them.                   *)
LEMMA TableItem ==
    ASSUME NEW x \in Items
    PROVE  Table(x) \subseteq Item /\ None \notin Table(x)
BY NoneAssumption DEF Table, Round, Draft, Change, Item

LEMMA ItemNames ==
    /\ \A x \in Reviews : x \in Items /\ Table(x) = Round
    /\ \A x \in Baselines : x \in Items /\ Table(x) = Draft
    /\ \A x \in Changes : x \in Items /\ Table(x) = Change
BY NamesAssumption DEF Items, Table

LEMMA NoneKnown ==
    /\ None \notin Row /\ None \notin Revision /\ None \notin Item
    /\ None \notin Requests /\ None \notin Requirements /\ None \notin Changes
BY NoneAssumption, NamesAssumption

(* Columns written over a content give a content.                          *)
LEMMA UpdatedContent ==
    ASSUME NEW x \in Content, NEW b \in Content, NEW y \in Content
    PROVE  /\ Updated(x, b, y) \in Content
           /\ \A k \in Columns : Updated(x, b, y)[k] \in {x[k], y[k]}
<1>1. DOMAIN y = Columns
    BY DEF Content
<1>2. Updated(x, b, y) = [k \in Columns |-> IF y[k] # b[k] THEN y[k] ELSE x[k]]
    BY <1>1 DEF Updated
<1>3. QED
    BY <1>2 DEF Content

(* Columns written over a row of a table give a row of it.                 *)
LEMMA MergedRowTyped ==
    ASSUME NEW x \in Row, NEW b \in Row, NEW y \in Row
    PROVE  LET m == MergedRow(x, b, y) IN
           /\ m \in Row
           /\ m.revision = IF y.revision # b.revision THEN y.revision ELSE x.revision
           /\ \A k \in Columns : m.content[k] \in {x.content[k], y.content[k]}
<1> DEFINE u == Updated(x, b, y)
           content == Updated(x.content, b.content, y.content)
<1>1. b # None
    BY NoneKnown
<1>2. DOMAIN y = {"status", "content", "revision", "baselined", "version"}
    BY DEF Row
<1>3. u = [c \in {"status", "content", "revision", "baselined", "version"} |->
                            IF y[c] # b[c] THEN y[c] ELSE x[c]]
    BY <1>2 DEF Updated
<1>4. u = [status |-> IF y.status # b.status THEN y.status ELSE x.status,
           content |-> IF y.content # b.content THEN y.content ELSE x.content,
           revision |-> IF y.revision # b.revision THEN y.revision ELSE x.revision,
           baselined |-> IF y.baselined # b.baselined THEN y.baselined ELSE x.baselined,
           version |-> IF y.version # b.version THEN y.version ELSE x.version]
    BY <1>3
<1>5. u \in Row /\ u.revision = IF y.revision # b.revision THEN y.revision ELSE x.revision
    BY <1>4 DEF Row
<1>6. content \in Content /\ \A k \in Columns : content[k] \in {x.content[k], y.content[k]}
    BY UpdatedContent DEF Row
<1>7. MergedRow(x, b, y) = [u EXCEPT !.content = content]
    BY <1>1 DEF MergedRow
<1> HIDE DEF u, content
<1>8. [u EXCEPT !.content = content] \in Row /\ [u EXCEPT !.content = content].content = content
      /\ [u EXCEPT !.content = content].revision = u.revision
    BY <1>5, <1>6 DEF Row
<1>9. QED
    BY <1>5, <1>6, <1>7, <1>8

LEMMA MergedRound ==
    ASSUME NEW x \in Round, NEW b \in Round, NEW y \in Round, y # None, b # None
    PROVE  Merged(x, b, y) \in Round
<1>1. DOMAIN y = {"status", "of", "round", "decisions"}
    BY DEF Round
<1>2. Merged(x, b, y) = [c \in {"status", "of", "round", "decisions"} |->
                            IF y[c] # b[c] THEN y[c] ELSE x[c]]
    BY <1>1 DEF Merged, Updated
<1>3. Merged(x, b, y) = [status |-> IF y.status # b.status THEN y.status ELSE x.status,
                         of |-> IF y.of # b.of THEN y.of ELSE x.of,
                         round |-> IF y.round # b.round THEN y.round ELSE x.round,
                         decisions |-> IF y.decisions # b.decisions THEN y.decisions ELSE x.decisions]
    BY <1>2
<1>4. QED
    BY <1>3 DEF Round

LEMMA MergedDraft ==
    ASSUME NEW x \in Draft, NEW b \in Draft, NEW y \in Draft, y # None, b # None
    PROVE  Merged(x, b, y) \in Draft
<1>1. DOMAIN y = {"status", "version"}
    BY DEF Draft
<1>2. Merged(x, b, y) = [c \in {"status", "version"} |-> IF y[c] # b[c] THEN y[c] ELSE x[c]]
    BY <1>1 DEF Merged, Updated
<1>3. Merged(x, b, y) = [status |-> IF y.status # b.status THEN y.status ELSE x.status,
                         version |-> IF y.version # b.version THEN y.version ELSE x.version]
    BY <1>2
<1>4. QED
    BY <1>3 DEF Draft

LEMMA MergedChange ==
    ASSUME NEW x \in Change, NEW b \in Change, NEW y \in Change, y # None, b # None
    PROVE  /\ Merged(x, b, y) \in Change
           /\ Merged(x, b, y).of \in {x.of, y.of}
           /\ Merged(x, b, y).patch \in {x.patch, y.patch}
           /\ Merged(x, b, y).status \in {x.status, y.status}
<1>1. DOMAIN y = {"status", "of", "patch", "version"}
    BY DEF Change
<1>2. Merged(x, b, y) = [c \in {"status", "of", "patch", "version"} |-> IF y[c] # b[c] THEN y[c] ELSE x[c]]
    BY <1>1 DEF Merged, Updated
<1>3. Merged(x, b, y) = [status |-> IF y.status # b.status THEN y.status ELSE x.status,
                         of |-> IF y.of # b.of THEN y.of ELSE x.of,
                         patch |-> IF y.patch # b.patch THEN y.patch ELSE x.patch,
                         version |-> IF y.version # b.version THEN y.version ELSE x.version]
    BY <1>2
<1>4. QED
    BY <1>3 DEF Change

(* What an item is after it was written back.                              *)
LEMMA MergedItem ==
    ASSUME NEW x \in Items,
           NEW now \in Table(x) \cup {None}, NEW b \in Table(x) \cup {None},
           NEW y \in Table(x) \cup {None}, b # None => now # None
    PROVE  /\ Merged(now, b, y) \in Table(x) \cup {None}
           /\ Merged(now, b, y) = None <=> now = None /\ y = None
<1>1. CASE y = None
    BY <1>1 DEF Merged
<1>2. CASE y # None /\ b = None
    BY <1>2 DEF Merged
<1>3. CASE y # None /\ b # None
    <2>1. now \in Table(x) /\ b \in Table(x) /\ y \in Table(x)
        BY <1>3
    <2>2. Merged(now, b, y) \in Table(x)
        <3>1. CASE x \in Reviews
            BY <3>1, <2>1, <1>3, MergedRound, ItemNames
        <3>2. CASE x \in Baselines
            BY <3>2, <2>1, <1>3, MergedDraft, ItemNames
        <3>3. CASE x \in Changes
            BY <3>3, <2>1, <1>3, MergedChange, ItemNames
        <3>4. QED
            BY <3>1, <3>2, <3>3 DEF Items
    <2>3. QED
        BY <2>1, <2>2, <1>3, TableItem
<1>4. QED
    BY <1>1, <1>2, <1>3

(* A change written back has the requirement, the patch and the status of  *)
(* one that was there or of the copy.                                      *)
LEMMA MergedStatus ==
    ASSUME NEW c \in Changes,
           NEW now \in Table(c) \cup {None}, NEW b \in Table(c) \cup {None},
           NEW y \in Table(c) \cup {None}, b # None => now # None,
           Merged(now, b, y) # None
    PROVE  LET m == Merged(now, b, y) IN
           \/ now # None /\ m.of = now.of /\ m.patch = now.patch /\ m.status = now.status
           \/ now = None /\ y # None /\ m = y
           \/ /\ now # None /\ y # None /\ m.of \in {now.of, y.of}
              /\ m.patch \in {now.patch, y.patch} /\ m.status \in {now.status, y.status}
<1>1. CASE y = None
    BY <1>1 DEF Merged
<1>2. CASE y # None /\ b = None
    <2>1. Merged(now, b, y) = y
        BY <1>2 DEF Merged
    <2>2. QED
        BY <2>1, <1>2
<1>3. CASE y # None /\ b # None
    <2>1. now \in Change /\ b \in Change /\ y \in Change
        BY <1>3, ItemNames
    <2>2. QED
        BY <2>1, <1>3, MergedChange
<1>4. QED
    BY <1>1, <1>2, <1>3

LEMMA IdleTyped ==
    /\ NoItems \in [Items -> Item \cup {None}]
    /\ TableTyped(NoItems)
    /\ Idle \in Request
    /\ [Idle EXCEPT !.pc = "done"] \in Request
<1>1. NoItems \in [Items -> Item \cup {None}] /\ TableTyped(NoItems)
    BY DEF NoItems, TableTyped
<1>2. QED
    BY <1>1 DEF Idle, Request

LEMMA RequestTyped ==
    ASSUME TypeOK, NEW r \in Requests
    PROVE  /\ req[r] \in Request
           /\ req[r].image \in [Items -> Item \cup {None}]
           /\ req[r].rows \in [Items -> Item \cup {None}]
           /\ req[r].on \in Requirements \cup {None}
           /\ req[r].copy \in Row \cup {None} /\ req[r].base \in Row \cup {None}
           /\ req[r].new \in Revision \cup {None}
           /\ req[r].pc \in {"idle", "act", "save", "flush", "commit", "done"}
BY DEF TypeOK, Request

LEMMA InitInv == ASSUME Init PROVE Inv
<1> USE DEF Init
<1>0. Written(None) \in Content
    BY DEF Written, Content
<1>1. row \in [Requirements -> Row \cup {None}]
    BY <1>0 DEF Row, Statuses
<1>2. revisions \in [Requirements -> SUBSET Revision]
    BY <1>0 DEF Revision
<1>3. \A x \in Items : items[x] # None => items[x] \in Table(x) /\ items[x] \in Initially(x)
    <2> SUFFICES ASSUME NEW x \in Items, items[x] # None PROVE items[x] \in Table(x) /\ items[x] \in Initially(x)
        OBVIOUS
    <2>1. items[x] \in Initially(x)
        OBVIOUS
    <2> HIDE DEF Init
    <2>2. <<>> \in Seq(Decision)
        BY EmptySeq
    <2>3. CASE x \in Reviews
        <3>1. items[x] \in [status: {"open"}, of: Requirements, round: {1}, decisions: {<<>>}]
            BY <2>1, <2>3 DEF Initially
        <3>2. \A d \in {<<>>} : d \in Seq(Decision)
            BY <2>2
        <3>3. items[x] \in [status: {"open", "approved", "rejected"}, of: Requirements, round: Nat,
                            decisions: Seq(Decision)]
            <4> DEFINE none == {<<>>}  all == Seq(Decision)
            <4>1. items[x] \in [status: {"open"}, of: Requirements, round: {1}, decisions: none]
                BY <3>1
            <4>2. none \subseteq all
                BY <3>2
            <4> HIDE DEF none, all
            <4>3. items[x] \in [status: {"open", "approved", "rejected"}, of: Requirements, round: Nat,
                                decisions: all]
                BY <4>1, <4>2
            <4>4. QED
                BY <4>3 DEF all
        <3>4. QED
            BY <2>1, <2>3, <3>3, ItemNames DEF Round
    <2>4. CASE x \in Baselines
        <3>1. items[x] \in [status: {"draft"}, version: {1}]
            BY <2>1, <2>4, NamesAssumption DEF Initially
        <3>2. items[x] \in Draft
            BY <3>1 DEF Draft
        <3>3. QED
            BY <2>1, <2>4, <3>2, ItemNames
    <2>5. CASE x \in Changes
        <3>1. items[x] \in [status: {"approved"}, of: Requirements, patch: Patches, version: {3}]
            BY <2>1, <2>5, NamesAssumption DEF Initially
        <3>2. items[x] \in Change
            BY <3>1 DEF Change
        <3>3. QED
            BY <2>1, <2>5, <3>2, ItemNames
    <2>6. QED
        BY <2>3, <2>4, <2>5 DEF Items
<1>4. items \in [Items -> Item \cup {None}]
    BY <1>3, TableItem
<1>5. req \in [Requests -> Request]
    BY IdleTyped
<1>6. TypeOK
    <2>1. \A x \in Items : items[x] # None => ("decisions" \in DOMAIN items[x]) = (x \in Reviews)
        BY <1>3 DEF Table, Round, Draft, Change
    <2>2. QED
        BY <1>1, <1>2, <1>4, <1>5, <2>1 DEF TypeOK
<1>7. \A r \in Requests : Checked(r)
    <2> SUFFICES ASSUME NEW r \in Requests PROVE Checked(r)
        OBVIOUS
    <2>1. req[r] = Idle
        OBVIOUS
    <2>2. Unwritten(r)
        BY <2>1, NoneKnown DEF Unwritten, Idle
    <2>3. CopyFits(r) /\ BaseFits(r)
        BY <2>1 DEF CopyFits, BaseFits, Saving, Holding, Idle
    <2>4. ItemsFit(r)
        BY <2>1, IdleTyped DEF ItemsFit, Idle, NoItems
    <2>5. ChangesFit(r)
        BY <2>1, ItemNames DEF ChangesFit, Idle, NoItems
    <2>6. QED
        BY <2>2, <2>3, <2>4, <2>5 DEF Checked
<1>8. OneCreator
    BY ItemNames DEF OneCreator, Idle, NoItems
<1>9. NumbersHeld
    BY DEF NumbersHeld, Idle, Holding
<1>10. RevisionsDense
    <2> SUFFICES ASSUME NEW q \in Requirements
                 PROVE  /\ \E n \in Nat : Numbers(q) = 1..n
                        /\ \A v, w \in revisions[q] : v.no = w.no => v = w
        BY DEF RevisionsDense
    <2>1. CASE row[q] = None
        <3>1. revisions[q] = {}
            BY <2>1
        <3>2. Numbers(q) = 1..0
            BY <3>1 DEF Numbers
        <3>3. QED
            BY <3>1, <3>2
    <2>2. CASE row[q] # None
        <3>1. revisions[q] = {[no |-> 1, content |-> Written(None)]}
            BY <2>2
        <3> HIDE DEF Init
        <3>2. Numbers(q) = {1}
            BY <3>1 DEF Numbers
        <3>3. Numbers(q) = 1..1
            BY <3>2
        <3>4. QED
            BY <3>1, <3>3
    <2>3. QED
        BY <2>1, <2>2
<1>11. RowsCaptured
    BY DEF RowsCaptured, Captured, Kept, Numbers
<1>12. ItemsKept
    <2>1. TableTyped(items)
        BY <1>3 DEF TableTyped
    <2> SUFFICES ASSUME NEW c \in Changes, items[c] # None
                 PROVE  row[items[c].of] # None /\ items[c].status # "applied"
        BY <2>1 DEF ItemsKept
    <2>2. items[c] \in [status: {"approved"}, of: Requirements, patch: Patches, version: {3}]
        BY <1>3, ItemNames, NamesAssumption DEF Initially
    <2>3. "of" \in DOMAIN items[c] /\ items[c].status = "approved"
        BY <2>2
    <2>4. c \in Items
        BY ItemNames
    <2>5. QED
        BY <2>3, <2>4
<1>13. QED
    BY <1>6, <1>7, <1>8, <1>9, <1>10, <1>11, <1>12 DEF Inv

-----------------------------------------------------------------------------
(* Steps that leave the tables alone *)

(* It is enough to look at the request that moves.                         *)
LEMMA Quiet ==
    ASSUME Inv, NEW r \in Requests, NEW y \in Request, req' = [req EXCEPT ![r] = y],
           UNCHANGED <<row, revisions, items>>,
           Checked(r)', OneCreator', NumbersHeld'
    PROVE  Inv'
<1> USE DEF Inv
<1>1. TypeOK'
    BY DEF TypeOK
<1>2. ASSUME NEW p \in Requests PROVE Checked(p)'
    <2>1. CASE p = r
        BY <2>1
    <2>2. CASE p # r
        <3>1. req'[p] = req[p]
            BY <2>2 DEF TypeOK
        <3>2. Checked(p)
            OBVIOUS
        <3> HIDE DEF Inv
        <3>3. \A q : Numbers(q)' = Numbers(q)
            BY DEF Numbers
        <3>4. Unwritten(p)'
            BY <3>1, <3>2 DEF Checked, Unwritten
        <3>5. CopyFits(p)'
            BY <3>1, <3>2, <3>3 DEF Checked, CopyFits, Saving, Captured, Kept
        <3>6. BaseFits(p)'
            BY <3>1, <3>2, <3>3 DEF Checked, BaseFits, Captured, Kept
        <3>7. ItemsFit(p)'
            BY <3>1, <3>2 DEF Checked, ItemsFit, TableTyped
        <3>8. ChangesFit(p)'
            <4>1. ChangesFit(p) /\ Saving(p)' = Saving(p)
                BY <3>1, <3>2 DEF Checked, Saving
            <4>2. \A q, c, patch : Left(q, c, patch)' = Left(q, c, patch)
                BY DEF Left, Has
            <4>3. QED
                BY <3>1, <4>1, <4>2 DEF ChangesFit, Has
        <3>9. QED
            BY <3>4, <3>5, <3>6, <3>7, <3>8 DEF Checked
    <2>3. QED
        BY <2>1, <2>2
<1>3. RevisionsDense' /\ RowsCaptured' /\ ItemsKept'
    BY DEF RevisionsDense, Numbers, RowsCaptured, Captured, Kept, ItemsKept, TableTyped, Left, Has
<1>4. QED
    BY <1>1, <1>2, <1>3

LEMMA EnterKeeps == ASSUME Inv, NEW r \in Requests, Enter(r) PROVE Inv'
<1> DEFINE y == [req[r] EXCEPT !.pc = "act", !.image = items]
<1> USE DEF Inv
<1>1. y \in Request /\ req' = [req EXCEPT ![r] = y] /\ UNCHANGED <<row, revisions, items>>
    <2>1. req[r] \in Request
        BY DEF TypeOK
    <2>2. y \in Request
        BY <2>1, RequestTyped DEF TypeOK, Request
    <2>3. QED
        BY <2>2 DEF Enter
<1>2. /\ req'[r].pc = "act" /\ req'[r].image = items /\ req'[r].new = req[r].new
      /\ req'[r].rows = req[r].rows
      /\ \A p \in Requests \ {r} : req'[p] = req[p]
    BY <1>1, RequestTyped DEF TypeOK, Request
<1>3. Checked(r)'
    <2>1. Unwritten(r)'
        BY <1>1, <1>2 DEF Enter, Checked, Unwritten
    <2>2. CopyFits(r)' /\ BaseFits(r)'
        BY <1>2 DEF CopyFits, BaseFits, Saving, Holding
    <2>3. ItemsFit(r)'
        BY <1>1, <1>2 DEF Checked, ItemsFit, TableTyped, ItemsKept
    <2>4. ChangesFit(r)'
        BY <1>1, <1>2 DEF ChangesFit, ItemsKept, Left, Has
    <2>5. QED
        BY <2>1, <2>2, <2>3, <2>4 DEF Checked
<1>4. OneCreator'
    BY <1>1, <1>2 DEF OneCreator
<1>5. NumbersHeld'
    BY <1>2 DEF NumbersHeld, Holding
<1>6. QED
    BY <1>1, <1>3, <1>4, <1>5, Quiet

LEMMA RefuseKeeps == ASSUME Inv, NEW r \in Requests, Refuse(r) PROVE Inv'
<1> DEFINE y == [Idle EXCEPT !.pc = "done"]
<1> USE DEF Inv
<1>1. y \in Request /\ req' = [req EXCEPT ![r] = y] /\ UNCHANGED <<row, revisions, items>>
    BY IdleTyped DEF Refuse, Done
<1>2. /\ req'[r].pc = "done" /\ req'[r].image = NoItems /\ req'[r].new = None
      /\ req'[r].rows = NoItems /\ req'[r].on = None
      /\ \A p \in Requests \ {r} : req'[p] = req[p]
    BY <1>1 DEF TypeOK, Idle
<1>3. Checked(r)'
    BY <1>2, IdleTyped, ItemNames DEF Checked, Unwritten, CopyFits, BaseFits, Saving, Holding,
        ItemsFit, ChangesFit, TableTyped, NoItems
<1>4. OneCreator'
    BY <1>1, <1>2, ItemNames DEF OneCreator, NoItems
<1>5. NumbersHeld'
    BY <1>2 DEF NumbersHeld, Holding
<1>6. QED
    BY <1>1, <1>3, <1>4, <1>5, Quiet

LEMMA SaveKeeps == ASSUME Inv, NEW r \in Requests, Save(r) PROVE Inv'
<1> DEFINE b == IF req[r].on = None THEN None ELSE row[req[r].on]
           y == [req[r] EXCEPT !.pc = "flush", !.rows = items, !.base = b]
<1> USE DEF Inv
<1>1. b \in Row \cup {None}
    BY RequestTyped DEF TypeOK
<1>a. req' = [req EXCEPT ![r] = y] /\ UNCHANGED <<row, revisions, items>>
    BY DEF Save
<1> HIDE DEF b
<1>b. y \in Request
    <2>1. items \in [Items -> Item \cup {None}]
        BY DEF TypeOK
    <2>2. req[r] \in Request
        BY RequestTyped
    <2>3. QED
        BY <1>1, <2>1, <2>2 DEF Request
<1>2. y \in Request /\ req' = [req EXCEPT ![r] = y] /\ UNCHANGED <<row, revisions, items>>
    BY <1>a, <1>b
<1>3. /\ req'[r].pc = "flush" /\ req'[r].image = req[r].image /\ req'[r].new = req[r].new
      /\ req'[r].rows = items /\ req'[r].on = req[r].on /\ req'[r].copy = req[r].copy
      /\ req'[r].base = b
      /\ \A p \in Requests \ {r} : req'[p] = req[p]
    BY <1>2, RequestTyped DEF TypeOK, Request
<1>4. req[r].pc = "save" /\ NumberFree(r)
    BY DEF Save
<1>5. Checked(r)'
    <2>1. Unwritten(r)'
        BY <1>2, <1>3, <1>4 DEF Checked, Unwritten
    <2>2. CopyFits(r)'
        BY <1>2, <1>3, <1>4 DEF Checked, CopyFits, Saving, Captured, Kept, Numbers
    <2>3. BaseFits(r)'
        <3>1. CASE req[r].on # None
            <4>1. b = row[req[r].on] /\ req[r].on \in Requirements
                BY <3>1, RequestTyped DEF b
            <4>2. req[r].new # None => req[r].new.no \notin Numbers(req[r].on)
                BY <1>4 DEF NumberFree
            <4>3. b = None => req[r].new # None
                BY <4>1, <1>4, <3>1 DEF Checked, CopyFits, Saving
            <4>4. PICK q, c, v : q = req[r].on /\ c = b /\ v = req[r].new
                OBVIOUS
            <4>5. c # None => Captured(q, c)'
                <5>1. c # None => Captured(q, c)
                    BY <4>1, <4>4 DEF RowsCaptured
                <5>2. QED
                    BY <1>2, <5>1 DEF Captured, Kept, Numbers
            <4>6. Numbers(q)' = Numbers(q)
                BY <1>2 DEF Numbers
            <4>7. req'[r].on = q /\ req'[r].base = c /\ req'[r].new = v /\ row' = row
                BY <1>2, <1>3, <4>4
            <4>8. /\ c = None => v # None
                  /\ c # None => c \in Row /\ row[q] # None
                  /\ v # None => v.no \notin Numbers(q)
                BY <1>1, <4>1, <4>2, <4>3, <4>4
            <4>9. QED
                BY <4>5, <4>6, <4>7, <4>8 DEF BaseFits
        <3>2. QED
            BY <3>1, <1>3 DEF BaseFits
    <2>4. ItemsFit(r)'
        BY <1>2, <1>3 DEF Checked, ItemsFit, TableTyped, ItemsKept
    <2>5. ChangesFit(r)'
        BY <1>2, <1>3, <1>4 DEF Checked, ChangesFit, Left, Has, Saving
    <2>6. QED
        BY <2>1, <2>2, <2>3, <2>4, <2>5 DEF Checked
<1>6. OneCreator'
    BY <1>2, <1>3 DEF OneCreator
<1>7. NumbersHeld'
    <2>1. \A p \in Requests \ {r} :
             /\ req[p].pc \in Holding /\ req[p].on = req[r].on /\ req[p].new # None /\ req[r].new # None
             => req[p].new.no # req[r].new.no
        BY <1>4 DEF NumberFree
    <2>2. QED
        BY <2>1, <1>3 DEF NumbersHeld
<1>8. QED
    BY <1>2, <1>5, <1>6, <1>7, Quiet

LEMMA FlushKeeps == ASSUME Inv, NEW r \in Requests, Flush(r) PROVE Inv'
<1> DEFINE y == [req[r] EXCEPT !.pc = "commit"]
<1> USE DEF Inv
<1>1. y \in Request /\ req' = [req EXCEPT ![r] = y] /\ UNCHANGED <<row, revisions, items>>
    <2>1. req[r] \in Request
        BY DEF TypeOK
    <2>2. y \in Request
        BY <2>1, RequestTyped DEF Request
    <2>3. QED
        BY <2>2 DEF Flush
<1>2. /\ req'[r].pc = "commit" /\ req'[r].image = req[r].image /\ req'[r].new = req[r].new
      /\ req'[r].rows = req[r].rows /\ req'[r].on = req[r].on /\ req'[r].copy = req[r].copy
      /\ req'[r].base = req[r].base
      /\ \A p \in Requests \ {r} : req'[p] = req[p]
    BY <1>1, RequestTyped DEF TypeOK, Request
<1>3. req[r].pc = "flush"
    BY DEF Flush
<1>4. Checked(r)'
    <2> HIDE DEF Inv
    <2>1. Checked(r) /\ \A q : Numbers(q)' = Numbers(q)
        BY <1>1 DEF Inv, Numbers
    <2>2. Unwritten(r)'
        BY <1>1, <1>2, <1>3, <2>1 DEF Checked, Unwritten
    <2>3. CopyFits(r)'
        BY <1>1, <1>2, <1>3, <2>1 DEF Checked, CopyFits, Saving, Captured, Kept
    <2>4. BaseFits(r)'
        BY <1>1, <1>2, <1>3, <2>1 DEF Checked, BaseFits, Holding, Captured, Kept
    <2>5. ItemsFit(r)'
        BY <1>1, <1>2, <2>1 DEF Checked, ItemsFit, TableTyped
    <2>6. ChangesFit(r)'
        BY <1>1, <1>2, <1>3, <2>1 DEF Checked, ChangesFit, Left, Has, Saving
    <2>7. QED
        BY <2>2, <2>3, <2>4, <2>5, <2>6 DEF Checked
<1>5. OneCreator'
    BY <1>1, <1>2 DEF OneCreator
<1>6. NumbersHeld'
    BY <1>2, <1>3 DEF NumbersHeld, Holding
<1>7. QED
    BY <1>1, <1>4, <1>5, <1>6, Quiet

-----------------------------------------------------------------------------
(* What the services do *)

(* The requirement as it will be saved, with the revision it names.        *)
Prepared(r, q, x, v) ==
    IF q = None THEN x = None /\ v = None
    ELSE /\ x \in Row
         /\ IF v # None
            THEN /\ v \in Revision /\ v.no = x.revision /\ v.content = x.content
                 /\ v.no = 1 \/ v.no - 1 \in Numbers(q)
            ELSE row[q] # None /\ Captured(q, x)

(* A change in the image is one that was loaded, and applied by now only   *)
(* if the new revision has it, or one whose id nobody uses.                *)
ChangePrepared(r, c, y, q, v) ==
    \/ /\ req[r].image[c] # None /\ y.of = req[r].image[c].of /\ y.patch = req[r].image[c].patch
       /\ y.status = "applied" => \/ req[r].image[c].status = "applied"
                                  \/ v # None /\ Has(v, c, y.patch) /\ q = y.of
    \/ Fresh(c) /\ row[y.of] # None /\ y.status # "applied"

LEMMA ActedKeeps ==
    ASSUME Inv, NEW r \in Requests, NEW q \in Requirements \cup {None},
           NEW image \in [Items -> Item \cup {None}], NEW copy, NEW new,
           Acted(r, q, image, copy, new),
           TableTyped(image), Prepared(r, q, copy, new),
           \A c \in Changes : image[c] # None => ChangePrepared(r, c, image[c], q, new)
    PROVE  Inv'
<1> DEFINE y == [req[r] EXCEPT !.pc = "save", !.on = q, !.image = image, !.copy = copy, !.new = new]
<1> USE DEF Inv
<1>1. copy \in Row \cup {None} /\ new \in Revision \cup {None}
    BY DEF Prepared
<1>2. y \in Request /\ req' = [req EXCEPT ![r] = y] /\ UNCHANGED <<row, revisions, items>>
    <2>1. y \in Request
        BY <1>1, RequestTyped DEF Request
    <2>2. QED
        BY <2>1 DEF Acted
<1>3. /\ req'[r].pc = "save" /\ req'[r].image = image /\ req'[r].new = new
      /\ req'[r].rows = req[r].rows /\ req'[r].on = q /\ req'[r].copy = copy
      /\ \A p \in Requests \ {r} : req'[p] = req[p]
    BY <1>2, RequestTyped DEF TypeOK, Request
<1>4. req[r].pc = "act"
    BY DEF Acted
<1>5. Checked(r)'
    <2>1. Unwritten(r)'
        BY <1>2, <1>3, <1>4 DEF Checked, Unwritten
    <2>2. CopyFits(r)'
        BY <1>2, <1>3 DEF CopyFits, Prepared, Saving, Captured, Kept, Numbers
    <2>3. BaseFits(r)'
        BY <1>3 DEF BaseFits, Holding
    <2>4. ItemsFit(r)'
        BY <1>2, <1>3 DEF Checked, ItemsFit, TableTyped
    <2>5. ChangesFit(r)'
        <3> SUFFICES ASSUME NEW c \in Changes, image[c] # None
                     PROVE  LET w == image[c].of  patch == image[c].patch IN
                            /\ row[w] # None
                            /\ items[c] # None => items[c].of = w /\ items[c].patch = patch
                            /\ image[c].status = "applied" =>
                                 Left(w, c, patch) \/ (new # None /\ Has(new, c, patch) /\ q = w)
            BY <1>2, <1>3 DEF ChangesFit, Left, Has, Saving
        <3>1. CASE /\ req[r].image[c] # None /\ image[c].of = req[r].image[c].of
                   /\ image[c].patch = req[r].image[c].patch
                   /\ image[c].status = "applied" =>
                        \/ req[r].image[c].status = "applied"
                        \/ new # None /\ Has(new, c, image[c].patch) /\ q = image[c].of
            BY <3>1, <1>4 DEF Checked, ChangesFit, Saving
        <3>2. CASE Fresh(c) /\ row[image[c].of] # None /\ image[c].status # "applied"
            BY <3>2 DEF Fresh
        <3>3. QED
            BY <3>1, <3>2 DEF ChangePrepared
    <2>6. QED
        BY <2>1, <2>2, <2>3, <2>4, <2>5 DEF Checked
<1>6. OneCreator'
    <2> SUFFICES ASSUME NEW p \in Requests, p # r, NEW c \in Changes,
                        req[p].image[c] # None, image[c] # None
                 PROVE  items[c] # None
        BY <1>2, <1>3 DEF OneCreator
    <2>1. req[r].image[c] # None
        BY DEF ChangePrepared, Fresh
    <2>2. QED
        BY <2>1 DEF OneCreator
<1>7. NumbersHeld'
    BY <1>3 DEF NumbersHeld, Holding
<1>8. QED
    BY <1>2, <1>5, <1>6, <1>7, Quiet

(* An image with one item written to it.                                   *)
LEMMA OneItem ==
    ASSUME Inv, NEW r \in Requests, NEW x \in Items, NEW y \in Table(x)
    PROVE  LET image == [req[r].image EXCEPT ![x] = y] IN
           /\ image \in [Items -> Item \cup {None}]
           /\ TableTyped(image)
           /\ image[x] = y
           /\ \A z \in Items \ {x} : image[z] = req[r].image[z]
<1>1. y \in Item
    BY TableItem
<1>2. req[r].image \in [Items -> Item \cup {None}]
    BY RequestTyped DEF Inv
<1>3. TableTyped(req[r].image)
    BY DEF Inv, Checked, ItemsFit
<1>4. QED
    BY <1>1, <1>2, <1>3 DEF TableTyped

(* A round or a baseline.                                                  *)
LEMMA ItemKeeps ==
    ASSUME Inv, NEW r \in Requests, NEW x \in Items, x \notin Changes, NEW y \in Table(x),
           OnlyItem(r, x, y)
    PROVE  Inv'
<1> DEFINE image == [req[r].image EXCEPT ![x] = y]
<1>1. Acted(r, None, image, None, None)
    BY DEF OnlyItem
<1>2. /\ image \in [Items -> Item \cup {None}] /\ TableTyped(image)
      /\ \A z \in Items \ {x} : image[z] = req[r].image[z]
    BY OneItem
<1> HIDE DEF image
<1>3. \A c \in Changes : image[c] # None => ChangePrepared(r, c, image[c], None, None)
    BY <1>2, ItemNames DEF ChangePrepared
<1>4. QED
    BY <1>1, <1>2, <1>3, ActedKeeps DEF Prepared

(* A change that is loaded or new.                                         *)
LEMMA ChangeKeeps ==
    ASSUME Inv, NEW r \in Requests, NEW c \in Changes, NEW y \in Table(c),
           OnlyItem(r, c, y), ChangePrepared(r, c, y, None, None)
    PROVE  Inv'
<1> DEFINE image == [req[r].image EXCEPT ![c] = y]
<1>1. Acted(r, None, image, None, None)
    BY DEF OnlyItem
<1>2. /\ image \in [Items -> Item \cup {None}] /\ TableTyped(image) /\ image[c] = y
      /\ \A z \in Items \ {c} : image[z] = req[r].image[z]
    BY OneItem, ItemNames
<1> HIDE DEF image
<1>3. \A z \in Changes : image[z] # None => ChangePrepared(r, z, image[z], None, None)
    BY <1>2, ItemNames DEF ChangePrepared
<1>4. QED
    BY <1>1, <1>2, <1>3, ActedKeeps DEF Prepared

(* The items stay as they were loaded.                                     *)
LEMMA CopyKeeps ==
    ASSUME Inv, NEW r \in Requests, NEW q \in Requirements, NEW copy, NEW new,
           Acted(r, q, req[r].image, copy, new), Prepared(r, q, copy, new)
    PROVE  Inv'
<1>1. req[r].image \in [Items -> Item \cup {None}] /\ TableTyped(req[r].image)
    BY RequestTyped DEF Inv, Checked, ItemsFit
<1>2. \A c \in Changes : req[r].image[c] # None => ChangePrepared(r, c, req[r].image[c], q, new)
    BY DEF ChangePrepared
<1>3. QED
    BY <1>1, <1>2, ActedKeeps

LEMMA CreateKeeps == ASSUME Inv, NEW r \in Requests, Create(r) PROVE Inv'
<1> DEFINE x == [status |-> "draft", content |-> Written(r), revision |-> 1,
                 baselined |-> FALSE, version |-> 1]
<1>1. PICK q \in Requirements : Acted(r, q, req[r].image, x, Frozen(x))
    BY DEF Create
<1>2. Written(r) \in Content
    BY DEF Written, Content
<1>3. x \in Row /\ Frozen(x) \in Revision /\ Frozen(x).no = 1 /\ Frozen(x).content = x.content
      /\ x.revision = 1
    BY <1>2 DEF Row, Revision, Statuses, Frozen
<1> HIDE DEF x
<1>4. Prepared(r, q, x, Frozen(x))
    BY <1>3, NoneKnown DEF Prepared
<1>5. QED
    BY <1>1, <1>4, CopyKeeps

(* Fields applied to a row that is there, and the revision that follows.   *)
LEMMA AppliedPrepared ==
    ASSUME Inv, NEW r \in Requests, NEW q \in Requirements, row[q] # None,
           NEW columns \in Patches, NEW value \in Requests \cup Changes
    PROVE  LET x == Applied(row[q], columns, value) IN
           /\ Prepared(r, q, x, Frozen(x))
           /\ Frozen(x) # None /\ Has(Frozen(x), value, columns)
<1> DEFINE x == Applied(row[q], columns, value)
           v == Frozen(x)
           content == [k \in Columns |-> IF k \in columns THEN value ELSE row[q].content[k]]
<1>1. row[q] \in Row
    BY DEF Inv, TypeOK
<1>2. content \in Content /\ \A k \in columns : content[k] = value
    BY <1>1 DEF Row, Content, Patches
<1>3. x \in Row /\ x.revision = row[q].revision + 1 /\ x.content = content /\ row[q].revision \in Nat
    <2> DEFINE w == row[q]
    <2>1. w \in Row
        BY <1>1
    <2>2. x = [w EXCEPT !.content = content, !.revision = @ + 1, !.version = @ + 1]
        BY <2>1 DEF Applied, Row
    <2> HIDE DEF w, content, x
    <2> DEFINE m == w.revision + 1  n == w.version + 1
    <2>3. m \in Nat /\ n \in Nat /\ w.revision \in Nat
        BY <2>1 DEF Row
    <2>4. x = [w EXCEPT !.content = content, !.revision = m, !.version = n]
        BY <2>2
    <2>5. m = w.revision + 1
        OBVIOUS
    <2> HIDE DEF m, n
    <2>6. /\ [w EXCEPT !.content = content, !.revision = m, !.version = n] \in Row
          /\ [w EXCEPT !.content = content, !.revision = m, !.version = n].content = content
          /\ [w EXCEPT !.content = content, !.revision = m, !.version = n].revision = m
        BY <1>2, <2>1, <2>3 DEF Row
    <2>7. QED
        BY <2>3, <2>4, <2>5, <2>6 DEF w
<1>4. v \in Revision /\ v.no = x.revision /\ v.content = x.content
    BY <1>3 DEF Frozen, Revision, Row
<1>5. v.no - 1 = row[q].revision
    BY <1>3, <1>4
<1>6. row[q].revision \in Numbers(q)
    BY DEF Inv, RowsCaptured, Captured
<1>7. v # None /\ q # None
    BY <1>4, NoneKnown
<1>8. Has(v, value, columns)
    BY <1>2, <1>3, <1>4 DEF Has
<1> HIDE DEF x, v, content
<1>9. Prepared(r, q, x, v)
    BY <1>3, <1>4, <1>5, <1>6, <1>7 DEF Prepared
<1>10. QED
    BY <1>7, <1>8, <1>9 DEF x, v

LEMMA NewChangePrepared ==
    ASSUME NEW r \in Requests, NEW c \in Changes, NEW q \in Requirements, NEW patch \in Patches,
           Fresh(c), row[q] # None
    PROVE  NewChange(q, patch) \in Table(c) /\ ChangePrepared(r, c, NewChange(q, patch), None, None)
<1>1. NewChange(q, patch) \in Change
    BY DEF NewChange, Change
<1>2. QED
    BY <1>1, ItemNames DEF ChangePrepared, NewChange

LEMMA PatchKeeps == ASSUME Inv, NEW r \in Requests, Patch(r) PROVE Inv'
<1>1. PICK q \in Requirements, patch \in Patches :
        /\ row[q] # None
        /\ IF row[q].baselined
           THEN \E c \in Changes : Fresh(c) /\ OnlyItem(r, c, NewChange(q, patch))
           ELSE ApplyFields(r, q, req[r].image, patch, r)
    BY DEF Patch
<1>2. CASE row[q].baselined
    <2>1. PICK c \in Changes : Fresh(c) /\ OnlyItem(r, c, NewChange(q, patch))
        BY <1>1, <1>2
    <2>2. QED
        BY <1>1, <2>1, NewChangePrepared, ChangeKeeps
<1>3. CASE ~row[q].baselined
    <2> DEFINE x == Applied(row[q], patch, r)
    <2>1. Acted(r, q, req[r].image, x, Frozen(x))
        BY <1>1, <1>3 DEF ApplyFields
    <2>2. Prepared(r, q, x, Frozen(x))
        BY <1>1, AppliedPrepared
    <2> HIDE DEF x
    <2>3. QED
        BY <2>1, <2>2, CopyKeeps
<1>4. QED
    BY <1>2, <1>3

LEMMA TransitionKeeps == ASSUME Inv, NEW r \in Requests, Transition(r) PROVE Inv'
<1>1. PICK q \in Requirements, action \in DOMAIN Lifecycle :
        /\ row[q] # None
        /\ Acted(r, q, req[r].image,
                 [row[q] EXCEPT !.status = Lifecycle[action].to, !.version = @ + 1], None)
    BY DEF Transition
<1> DEFINE x == [row[q] EXCEPT !.status = Lifecycle[action].to, !.version = @ + 1]
<1>2. Lifecycle[action].to \in Statuses
    BY DEF Lifecycle, Statuses
<1>3. row[q] \in Row
    BY <1>1 DEF Inv, TypeOK
<1>4. x \in Row /\ x.revision = row[q].revision /\ x.content = row[q].content
    <2> DEFINE w == row[q]  to == Lifecycle[action].to
    <2>1. w \in Row /\ to \in Statuses /\ x = [w EXCEPT !.status = to, !.version = @ + 1]
        BY <1>2, <1>3
    <2> HIDE DEF w, to, x
    <2>2. /\ w.content \in Content /\ w.revision \in Nat
          /\ w.baselined \in BOOLEAN /\ w.version \in Nat
          /\ w = [status |-> w.status, content |-> w.content, revision |-> w.revision,
                  baselined |-> w.baselined, version |-> w.version]
        BY <2>1 DEF Row
    <2>3. x = [status |-> to, content |-> w.content, revision |-> w.revision,
               baselined |-> w.baselined, version |-> w.version + 1]
        BY <2>1, <2>2
    <2>4. x \in Row
        BY <2>1, <2>2, <2>3 DEF Row
    <2>5. QED
        BY <2>3, <2>4 DEF w
<1>5. Captured(q, x)
    BY <1>1, <1>4 DEF Inv, RowsCaptured, Captured
<1>6. Prepared(r, q, x, None)
    BY <1>1, <1>4, <1>5, NoneKnown DEF Prepared
<1>7. Acted(r, q, req[r].image, x, None)
    BY <1>1
<1> HIDE DEF x
<1>8. QED
    BY <1>6, <1>7, CopyKeeps

LEMMA CreateReviewKeeps == ASSUME Inv, NEW r \in Requests, CreateReview(r) PROVE Inv'
<1> DEFINE rounds(q) == {v \in Reviews : req[r].image[v] # None /\ req[r].image[v].of = q}
           round(q) == [status |-> "open", of |-> q, round |-> Cardinality(rounds(q)) + 1,
                        decisions |-> <<>>]
<1>1. PICK q \in Requirements, w \in Reviews : OnlyItem(r, w, round(q))
    BY DEF CreateReview
<1>2. Cardinality(rounds(q)) \in Nat
    <2>1. rounds(q) \subseteq Reviews
        OBVIOUS
    <2>2. IsFiniteSet(rounds(q))
        BY <2>1, NamesAssumption, FS_Subset
    <2>3. QED
        BY <2>2, FS_CardinalityType
<1>3. round(q) \in Round
    <2> DEFINE n == Cardinality(rounds(q))
    <2> HIDE DEF rounds
    <2>1. n + 1 \in Nat
        BY <1>2
    <2>2. <<>> \in Seq(Decision)
        BY EmptySeq
    <2>3. QED
        BY <2>1, <2>2 DEF Round
<1>4. w \in Items /\ w \notin Changes /\ Table(w) = Round
    BY ItemNames, NamesAssumption
<1> HIDE DEF round
<1>5. QED
    BY <1>1, <1>3, <1>4, ItemKeeps

LEMMA DecideReviewKeeps == ASSUME Inv, NEW r \in Requests, DecideReview(r) PROVE Inv'
<1>1. PICK w \in Reviews, d \in Decision :
        LET x == req[r].image[w]  decisions == Append(x.decisions, d) IN
        /\ x # None
        /\ OnlyItem(r, w, [x EXCEPT !.decisions = decisions, !.status = Verdict(decisions)])
    BY DEF DecideReview
<1> DEFINE x == req[r].image[w]
           decisions == Append(x.decisions, d)
           y == [x EXCEPT !.decisions = decisions, !.status = Verdict(decisions)]
<1>2. w \in Items /\ w \notin Changes /\ Table(w) = Round
    BY ItemNames, NamesAssumption
<1>3. x \in Round
    BY <1>1, <1>2 DEF Inv, Checked, ItemsFit, TableTyped
<1>4. decisions \in Seq(Decision)
    BY <1>3, AppendProperties DEF Round
<1>5. Verdict(decisions) \in {"open", "approved", "rejected"}
    BY DEF Verdict
<1>6. OnlyItem(r, w, y)
    BY <1>1
<1>7. y \in Round
    <2> HIDE DEF decisions, x
    <2>1. QED
        BY <1>3, <1>4, <1>5 DEF Round
<1> HIDE DEF y
<1>8. QED
    BY <1>2, <1>6, <1>7, ItemKeeps

LEMMA BaselineKeeps ==
    ASSUME Inv, NEW r \in Requests, CreateBaseline(r) \/ ActivateBaseline(r)
    PROVE  Inv'
<1>1. \A b \in Baselines : b \in Items /\ b \notin Changes /\ Table(b) = Draft
    BY ItemNames, NamesAssumption
<1>2. PICK b \in Baselines, y \in Draft : OnlyItem(r, b, y)
    <2>1. CASE CreateBaseline(r)
        <3>1. [status |-> "draft", version |-> 1] \in Draft
            BY DEF Draft
        <3>2. QED
            BY <2>1, <3>1 DEF CreateBaseline
    <2>2. CASE ActivateBaseline(r)
        <3>1. PICK b \in Baselines :
                /\ req[r].image[b] # None
                /\ OnlyItem(r, b, [req[r].image[b] EXCEPT !.status = "active", !.version = @ + 1])
            BY <2>2 DEF ActivateBaseline
        <3>2. req[r].image[b] \in Draft
            BY <3>1, <1>1 DEF Inv, Checked, ItemsFit, TableTyped
        <3>3. [req[r].image[b] EXCEPT !.status = "active", !.version = @ + 1] \in Draft
            <4> DEFINE w == req[r].image[b]
            <4>1. w \in Draft
                BY <3>2
            <4> HIDE DEF w
            <4> DEFINE n == w.version + 1
            <4>2. n \in Nat
                BY <4>1 DEF Draft
            <4>3. [w EXCEPT !.status = "active", !.version = @ + 1] = [w EXCEPT !.status = "active", !.version = n]
                OBVIOUS
            <4> HIDE DEF n
            <4>4. [w EXCEPT !.status = "active", !.version = n] \in Draft
                BY <4>1, <4>2 DEF Draft
            <4>5. QED
                BY <4>3, <4>4 DEF w
        <3>4. QED
            BY <3>1, <3>3
    <2>3. QED
        BY <2>1, <2>2
<1>3. QED
    BY <1>1, <1>2, ItemKeeps

LEMMA CreateChangeKeeps == ASSUME Inv, NEW r \in Requests, CreateChange(r) PROVE Inv'
<1>1. PICK q \in Requirements, c \in Changes, patch \in Patches :
        row[q] # None /\ Fresh(c) /\ OnlyItem(r, c, NewChange(q, patch))
    BY DEF CreateChange
<1>2. QED
    BY <1>1, NewChangePrepared, ChangeKeeps

LEMMA TransitionChangeKeeps == ASSUME Inv, NEW r \in Requests, TransitionChange(r) PROVE Inv'
<1>1. PICK c \in Changes, action \in DOMAIN Governance :
        LET x == req[r].image[c] IN
        /\ x # None
        /\ IF action # "apply" THEN OnlyItem(r, c, Governed(x, action))
           ELSE ApplyFields(r, x.of, [req[r].image EXCEPT ![c] = Governed(x, action)], x.patch, c)
    BY DEF TransitionChange
<1> DEFINE x == req[r].image[c]
           g == Governed(x, action)
<1>2. c \in Items /\ Table(c) = Change
    BY ItemNames
<1>3. x \in Change
    BY <1>1, <1>2 DEF Inv, Checked, ItemsFit, TableTyped
<1>4. /\ Governance[action].to \in {"draft", "in_review", "approved", "rejected", "applied", "canceled"}
      /\ action # "apply" => Governance[action].to # "applied"
    BY DEF Governance
<1>5. g \in Change /\ g.of = x.of /\ g.patch = x.patch /\ (action # "apply" => g.status # "applied")
    <2> DEFINE to == Governance[action].to
    <2>1. g = [x EXCEPT !.status = to, !.version = @ + 1]
        BY DEF Governed
    <2> HIDE DEF x, to, g
    <2>2. /\ x.of \in Requirements /\ x.patch \in Patches /\ x.version \in Nat
          /\ x = [status |-> x.status, of |-> x.of, patch |-> x.patch, version |-> x.version]
        BY <1>3 DEF Change
    <2>3. g = [status |-> to, of |-> x.of, patch |-> x.patch, version |-> x.version + 1]
        BY <2>1, <2>2
    <2>4. g \in Change
        BY <1>4, <2>2, <2>3 DEF Change, to
    <2>5. QED
        BY <1>4, <2>3, <2>4 DEF to
<1>6. CASE action # "apply"
    <2>1. ChangePrepared(r, c, g, None, None)
        BY <1>1, <1>5, <1>6 DEF ChangePrepared
    <2>2. OnlyItem(r, c, g)
        BY <1>1, <1>6
    <2> HIDE DEF g
    <2>3. QED
        BY <1>2, <1>5, <2>1, <2>2, ChangeKeeps
<1>7. CASE action = "apply"
    <2> DEFINE q == x.of
               y == Applied(row[q], x.patch, c)
               image == [req[r].image EXCEPT ![c] = g]
    <2>1. Acted(r, q, image, y, Frozen(y))
        BY <1>1, <1>7 DEF ApplyFields
    <2>2. q \in Requirements /\ row[q] # None /\ x.patch \in Patches
        BY <1>1, <1>3 DEF Change, Inv, Checked, ChangesFit
    <2>3. Prepared(r, q, y, Frozen(y)) /\ Frozen(y) # None /\ Has(Frozen(y), c, x.patch)
        BY <2>2, AppliedPrepared
    <2>4. /\ image \in [Items -> Item \cup {None}] /\ TableTyped(image) /\ image[c] = g
          /\ \A z \in Items \ {c} : image[z] = req[r].image[z]
        BY <1>2, <1>5, OneItem
    <2> HIDE DEF image, y
    <2>5. \A z \in Changes : image[z] # None => ChangePrepared(r, z, image[z], q, Frozen(y))
        <3> SUFFICES ASSUME NEW z \in Changes, image[z] # None
                     PROVE  ChangePrepared(r, z, image[z], q, Frozen(y))
            OBVIOUS
        <3>1. CASE z = c
            BY <3>1, <1>1, <1>5, <2>3, <2>4 DEF ChangePrepared
        <3>2. CASE z # c
            BY <3>2, <2>4, ItemNames DEF ChangePrepared
        <3>3. QED
            BY <3>1, <3>2
    <2> HIDE DEF q, x
    <2>6. QED
        BY <2>1, <2>2, <2>3, <2>4, <2>5, ActedKeeps
<1>8. QED
    BY <1>6, <1>7

-----------------------------------------------------------------------------
(* What a commit leaves in the tables *)

(* The requirement written back has the number and the columns of          *)
(* revisions that are there or inserted with it.                           *)
LEMMA CommitRow ==
    ASSUME Inv, NEW r \in Requests, req[r].pc = "commit", req[r].on # None
    PROVE  LET q == req[r].on
               x == MergedRow(row[q], req[r].base, req[r].copy)
               vs == revisions[q] \cup ({req[r].new} \ {None}) IN
           /\ x \in Row
           /\ \E v \in vs : v.no = x.revision
           /\ Kept(vs, x.content)
<1> DEFINE q == req[r].on
           now == row[q]  b == req[r].base  y == req[r].copy  e == req[r].new
           x == MergedRow(now, b, y)
           vs == revisions[q] \cup ({e} \ {None})
<1>1. q \in Requirements
    BY RequestTyped DEF Inv
<1>2. /\ y \in Row
      /\ e # None => e.no = y.revision /\ e.content = y.content
      /\ e = None => row[q] # None /\ Captured(q, y)
    BY DEF Inv, Checked, CopyFits, Saving
<1>3. /\ b = None => e # None
      /\ b # None => b \in Row /\ row[q] # None
    BY DEF Inv, Checked, BaseFits, Holding
<1>4. now # None => now \in Row /\ Captured(q, now)
    BY <1>1 DEF Inv, TypeOK, RowsCaptured
<1>5. (\E v \in vs : v.no = y.revision) /\ Kept(vs, y.content)
    <2>1. CASE e # None
        <3>1. e \in vs
            BY <2>1
        <3>2. QED
            BY <1>2, <2>1, <3>1 DEF Kept
    <2>2. CASE e = None
        <3>1. revisions[q] \subseteq vs /\ Captured(q, y)
            BY <1>2, <2>2
        <3>2. QED
            BY <3>1 DEF Captured, Kept, Numbers
    <2>3. QED
        BY <2>1, <2>2
<1>6. now # None => (\E v \in vs : v.no = now.revision) /\ Kept(vs, now.content)
    <2>1. revisions[q] \subseteq vs
        OBVIOUS
    <2>2. QED
        BY <1>4, <2>1 DEF Captured, Kept, Numbers
<1> SUFFICES x \in Row /\ (\E v \in vs : v.no = x.revision) /\ Kept(vs, x.content)
    OBVIOUS
<1>7. CASE b = None
    <2>1. x = y
        BY <1>7 DEF MergedRow
    <2> HIDE DEF x, y, e, b, q, now, vs
    <2>2. QED
        BY <1>2, <1>5, <2>1
<1>8. CASE b # None
    <2>1. now \in Row /\ b \in Row /\ y \in Row /\ now # None
        BY <1>2, <1>3, <1>4, <1>8
    <2>2. /\ x \in Row
          /\ x.revision = IF y.revision # b.revision THEN y.revision ELSE now.revision
          /\ \A k \in Columns : x.content[k] \in {now.content[k], y.content[k]}
        <3> HIDE DEF y, b, now
        <3>1. QED
            BY <2>1, MergedRowTyped
    <2> HIDE DEF x, y, e, b, q, now, vs
    <2>3. Kept(vs, x.content)
        BY <1>5, <1>6, <2>1, <2>2 DEF Kept
    <2>4. \E v \in vs : v.no = x.revision
        BY <1>5, <1>6, <2>1, <2>2
    <2>5. QED
        BY <2>2, <2>3, <2>4
<1>9. QED
    BY <1>7, <1>8

(* Rows, revisions and items do not go away, and the revision that came is *)
(* that of the request.                                                    *)
LEMMA CommitGrows ==
    ASSUME Inv, NEW r \in Requests, Commit(r)
    PROVE  /\ row' \in [Requirements -> Row \cup {None}]
           /\ \A q \in Requirements : row[q] # None => row'[q] # None
           /\ \A q \in Requirements : row'[q] # row[q] => req[r].on = q
           /\ revisions' \in [Requirements -> SUBSET Revision]
           /\ \A q \in Requirements : revisions'[q] =
                 revisions[q] \cup (IF req[r].on = q /\ req[r].new # None THEN {req[r].new} ELSE {})
           /\ items' \in [Items -> Item \cup {None}] /\ TableTyped(items')
           /\ \A x \in Items : items'[x] = None <=> items[x] = None /\ req[r].image[x] = None
<1> USE DEF Inv
<1>1. /\ items' \in [Items -> Item \cup {None}] /\ TableTyped(items')
      /\ \A x \in Items : items'[x] = None <=> items[x] = None /\ req[r].image[x] = None
    <2>1. items' = [x \in Items |-> Merged(items[x], req[r].rows[x], req[r].image[x])]
        BY DEF Commit
    <2>2. ASSUME NEW x \in Items
          PROVE  /\ items'[x] \in Table(x) \cup {None}
                 /\ items'[x] = None <=> items[x] = None /\ req[r].image[x] = None
        <3> DEFINE now == items[x]  b == req[r].rows[x]  y == req[r].image[x]
        <3>1. /\ now \in Table(x) \cup {None} /\ b \in Table(x) \cup {None}
              /\ y \in Table(x) \cup {None} /\ (b # None => now # None)
            BY DEF Checked, ItemsFit, TableTyped, ItemsKept
        <3>2. items'[x] = Merged(now, b, y)
            BY <2>1
        <3> HIDE DEF now, b, y, Inv
        <3>3. /\ Merged(now, b, y) \in Table(x) \cup {None}
              /\ (Merged(now, b, y) = None <=> now = None /\ y = None)
            BY <3>1, MergedItem
        <3>4. QED
            BY <3>2, <3>3 DEF now, y
    <2>3. \A x \in Items : items'[x] \in Item \cup {None}
        BY <2>2, TableItem
    <2>4. QED
        BY <2>1, <2>2, <2>3 DEF TableTyped
<1>2. CASE req[r].on = None
    <2>1. row' = row /\ revisions' = revisions
        BY <1>2 DEF Commit
    <2>2. \A q \in Requirements : q # None
        BY NoneKnown
    <2>3. /\ row' \in [Requirements -> Row \cup {None}]
          /\ \A q \in Requirements : row[q] # None => row'[q] # None
          /\ \A q \in Requirements : row'[q] # row[q] => req[r].on = q
          /\ revisions' \in [Requirements -> SUBSET Revision]
          /\ \A q \in Requirements : revisions'[q] =
                revisions[q] \cup (IF req[r].on = q /\ req[r].new # None THEN {req[r].new} ELSE {})
        BY <1>2, <2>1, <2>2 DEF TypeOK
    <2>4. QED
        BY <2>3, <1>1
<1>3. CASE req[r].on # None
    <2> DEFINE q == req[r].on
               x == MergedRow(row[q], req[r].base, req[r].copy)
    <2>1. q \in Requirements
        BY <1>3, RequestTyped
    <2>2. /\ row' = [row EXCEPT ![q] = x]
          /\ revisions' = [revisions EXCEPT ![q] = @ \cup ({req[r].new} \ {None})]
        BY <1>3 DEF Commit
    <2>3. x \in Row /\ x # None
        BY <1>3, CommitRow, NoneKnown DEF Commit
    <2>4. req[r].new \in Revision \cup {None}
        BY RequestTyped
    <2> HIDE DEF q, x
    <2>5. /\ row' \in [Requirements -> Row \cup {None}]
          /\ \A p \in Requirements : row[p] # None => row'[p] # None
          /\ \A p \in Requirements : row'[p] # row[p] => q = p
        BY <2>1, <2>2, <2>3 DEF TypeOK
    <2>6. /\ revisions' \in [Requirements -> SUBSET Revision]
          /\ \A p \in Requirements : revisions'[p] =
                revisions[p] \cup (IF q = p /\ req[r].new # None THEN {req[r].new} ELSE {})
        BY <2>1, <2>2, <2>4 DEF TypeOK
    <2>7. QED
        BY <1>1, <2>5, <2>6 DEF q
<1>4. QED
    BY <1>2, <1>3

(* A change in the table is as it was, or is or resembles the copy.        *)
LEMMA CommitChange ==
    ASSUME Inv, NEW r \in Requests, Commit(r), NEW c \in Changes, items'[c] # None
    PROVE  LET y == req[r].image[c] IN
           \/ /\ items[c] # None /\ items'[c].of = items[c].of
              /\ items'[c].patch = items[c].patch /\ items'[c].status = items[c].status
           \/ /\ y # None /\ items'[c].of = y.of /\ items'[c].patch = y.patch
              /\ items[c] # None => items[c].of = y.of /\ items[c].patch = y.patch
              /\ items'[c].status = y.status \/ (items[c] # None /\ items'[c].status = items[c].status)
<1> DEFINE now == items[c]  b == req[r].rows[c]  y == req[r].image[c]
<1>1. c \in Items
    BY ItemNames
<1>2. /\ now \in Table(c) \cup {None} /\ b \in Table(c) \cup {None} /\ y \in Table(c) \cup {None}
      /\ b # None => now # None
    BY <1>1 DEF Inv, Checked, ItemsFit, TableTyped, ItemsKept
<1>3. items'[c] = Merged(now, b, y)
    BY <1>1 DEF Commit
<1>4. y # None /\ now # None => now.of = y.of /\ now.patch = y.patch
    BY DEF Inv, Checked, ChangesFit
<1> DEFINE m == items'[c]
<1>5. \/ now # None /\ m.of = now.of /\ m.patch = now.patch /\ m.status = now.status
      \/ now = None /\ y # None /\ m = y
      \/ /\ now # None /\ y # None /\ m.of \in {now.of, y.of}
         /\ m.patch \in {now.patch, y.patch} /\ m.status \in {now.status, y.status}
    <2>1. Merged(now, b, y) = m
        BY <1>3
    <2> HIDE DEF m
    <2>2. Merged(now, b, y) # None
        BY <2>1 DEF m
    <2> HIDE DEF now, b, y
    <2>3. QED
        BY <1>2, <2>1, <2>2, MergedStatus
<1> HIDE DEF m, now, b, y
<1>6. \/ now # None /\ m.of = now.of /\ m.patch = now.patch /\ m.status = now.status
      \/ /\ y # None /\ m.of = y.of /\ m.patch = y.patch
         /\ now # None => now.of = y.of /\ now.patch = y.patch
         /\ m.status = y.status \/ (now # None /\ m.status = now.status)
    BY <1>4, <1>5
<1>7. QED
    BY <1>6 DEF m, now, y

(* What the others have checked holds in the tables after the commit.      *)
LEMMA CommitOthers ==
    ASSUME Inv, NEW r \in Requests, Commit(r), NEW p \in Requests, p # r
    PROVE  Checked(p)'
<1> USE DEF Inv
<1>1. req'[p] = req[p]
    BY DEF Commit, Done, TypeOK
<1>2. Checked(p) /\ Checked(r)
    OBVIOUS
<1>3. \A q \in Requirements : revisions[q] \subseteq revisions'[q] /\ Numbers(q) \subseteq Numbers(q)'
    BY CommitGrows DEF Numbers
<1>4. /\ \A q \in Requirements : \A x : Captured(q, x) =>
            x.revision \in Numbers(q)' /\ Kept(revisions'[q], x.content)
      /\ \A q \in Requirements : \A c, patch : Left(q, c, patch) =>
            \E v \in revisions'[q] : Has(v, c, patch)
    BY <1>3 DEF Captured, Kept, Left
<1>5. \A q \in Requirements : q # None
    BY NoneKnown
<1>6. \A q \in Requirements : \A x : Captured(q, x) => Captured(q, x)'
    BY <1>4 DEF Captured
<1>7. Unwritten(p)'
    BY <1>1, <1>2 DEF Checked, Unwritten
<1>8. CopyFits(p)'
    <2> SUFFICES ASSUME Saving(p), req[p].on # None PROVE CopyFits(p)'
        BY <1>1 DEF CopyFits, Saving
    <2>1. req[p].on \in Requirements
        BY RequestTyped
    <2>2. row[req[p].on] # None => row'[req[p].on] # None
        BY <2>1, CommitGrows
    <2>0. PICK q, x, v : q = req[p].on /\ x = req[p].copy /\ v = req[p].new
        OBVIOUS
    <2>3. /\ x \in Row
          /\ IF v # None
             THEN /\ v \in Revision /\ v.no = x.revision /\ v.content = x.content
                  /\ v.no = 1 \/ v.no - 1 \in Numbers(q)
             ELSE row[q] # None /\ Captured(q, x)
        BY <1>2, <2>0 DEF Checked, CopyFits
    <2>4. Numbers(q) \subseteq Numbers(q)'
        BY <2>0, <2>1, <1>3
    <2>5. Captured(q, x) => Captured(q, x)'
        BY <2>0, <2>1, <1>6
    <2>6. req'[p].on = q /\ req'[p].copy = x /\ req'[p].new = v
        BY <1>1, <2>0
    <2>7. QED
        BY <2>0, <2>2, <2>3, <2>4, <2>5, <2>6 DEF CopyFits
<1>9. BaseFits(p)'
    <2> SUFFICES ASSUME req[p].pc \in Holding, req[p].on # None PROVE BaseFits(p)'
        BY <1>1 DEF BaseFits
    <2>1. req[p].on \in Requirements
        BY RequestTyped
    <2> DEFINE q == req[p].on  b == req[p].base  v == req[p].new
    <2>2. /\ b = None => v # None
          /\ b # None => b \in Row /\ row[q] # None /\ Captured(q, b)
          /\ v # None => v.no \notin Numbers(q)
        BY <1>2 DEF Checked, BaseFits
    <2>3. row[q] # None => row'[q] # None
        BY <2>1, CommitGrows
    <2>4. Captured(q, b) => Captured(q, b)'
        BY <2>1, <1>1, <1>4 DEF Captured, Kept, Numbers
    <2>5. v # None => v.no \notin Numbers(q)'
        <3>1. req[r].on = q /\ req[r].new # None /\ v # None => v.no # req[r].new.no
            BY DEF NumbersHeld, Commit, Holding
        <3>2. revisions'[q] = revisions[q] \cup (IF req[r].on = q /\ req[r].new # None THEN {req[r].new} ELSE {})
            BY <2>1, CommitGrows
        <3>3. Numbers(q)' = {w.no : w \in revisions'[q]}
            BY <1>1 DEF Numbers
        <3>4. QED
            BY <2>2, <3>1, <3>2, <3>3 DEF Numbers
    <2>6. QED
        BY <1>1, <2>2, <2>3, <2>4, <2>5 DEF BaseFits
<1>10. ItemsFit(p)'
    BY <1>1, <1>2, CommitGrows DEF Checked, ItemsFit, TableTyped
<1>11. ChangesFit(p)'
    <2> SUFFICES ASSUME NEW c \in Changes, req[p].image[c] # None
                 PROVE  LET q == req[p].image[c].of  patch == req[p].image[c].patch IN
                        /\ row'[q] # None
                        /\ items'[c] # None => items'[c].of = q /\ items'[c].patch = patch
                        /\ req[p].image[c].status = "applied" =>
                             \/ \E v \in revisions'[q] : Has(v, c, patch)
                             \/ req[p].new # None /\ Has(req[p].new, c, patch) /\ req[p].on = q /\ Saving(p)
        BY <1>1 DEF ChangesFit, Left, Has, Saving
    <2> DEFINE q == req[p].image[c].of  patch == req[p].image[c].patch
    <2>1. c \in Items /\ Table(c) = Change
        BY ItemNames
    <2>2. q \in Requirements
        <3>1. req[p].image[c] \in Change
            BY <1>2, <2>1 DEF Checked, ItemsFit, TableTyped
        <3>2. QED
            BY <3>1 DEF Change
    <2>3. /\ row[q] # None
          /\ items[c] # None => items[c].of = q /\ items[c].patch = patch
          /\ req[p].image[c].status = "applied" =>
               \/ Left(q, c, patch)
               \/ req[p].new # None /\ Has(req[p].new, c, patch) /\ req[p].on = q /\ Saving(p)
        BY <1>2 DEF Checked, ChangesFit
    <2>4. row'[q] # None
        BY <2>2, <2>3, CommitGrows
    <2>5. req[r].image[c] # None => items[c] # None
        BY DEF OneCreator
    <2>6. items'[c] # None => items'[c].of = q /\ items'[c].patch = patch
        BY <2>3, <2>5, CommitChange
    <2>7. QED
        BY <1>4, <2>2, <2>3, <2>4, <2>6
<1>12. QED
    BY <1>7, <1>8, <1>9, <1>10, <1>11 DEF Checked

(* The inserted number is the next one.                                    *)
LEMMA CommitDense ==
    ASSUME Inv, NEW r \in Requests, Commit(r)
    PROVE  RevisionsDense'
<1> SUFFICES ASSUME NEW q \in Requirements
             PROVE  /\ \E n \in Nat : {v.no : v \in revisions'[q]} = 1..n
                    /\ \A v, w \in revisions'[q] : v.no = w.no => v = w
    BY DEF RevisionsDense, Numbers
<1> DEFINE e == req[r].new
<1>1. PICK n \in Nat : Numbers(q) = 1..n
    BY DEF Inv, RevisionsDense
<1>2. \A v, w \in revisions[q] : v.no = w.no => v = w
    BY DEF Inv, RevisionsDense
<1>3. revisions'[q] = revisions[q] \cup (IF req[r].on = q /\ e # None THEN {e} ELSE {})
    BY CommitGrows
<1>4. CASE ~(req[r].on = q /\ e # None)
    <2>1. revisions'[q] = revisions[q]
        BY <1>3, <1>4
    <2>2. QED
        BY <1>1, <1>2, <2>1 DEF Numbers
<1>5. CASE req[r].on = q /\ e # None
    <2>1. revisions'[q] = revisions[q] \cup {e}
        BY <1>3, <1>5
    <2>2. req[r].pc = "commit" /\ q # None
        BY NoneKnown DEF Commit
    <2>3. e \in Revision /\ (e.no = 1 \/ e.no - 1 \in Numbers(q))
        BY <1>5, <2>2 DEF Inv, Checked, CopyFits, Saving
    <2>4. e.no \notin Numbers(q)
        BY <1>5, <2>2 DEF Inv, Checked, BaseFits, Holding
    <2>6. e.no \in Nat
        BY <2>3 DEF Revision
    <2> HIDE DEF e
    <2>7. e.no = n + 1
        BY <1>1, <2>3, <2>4, <2>6
    <2>8. {v.no : v \in revisions'[q]} = Numbers(q) \cup {e.no}
        BY <2>1 DEF Numbers
    <2>9. Numbers(q) \cup {e.no} = 1..(n + 1)
        BY <1>1, <2>7
    <2>10. \A v \in revisions[q] : v.no # e.no
        BY <2>4 DEF Numbers
    <2>11. \A v, w \in revisions'[q] : v.no = w.no => v = w
        BY <1>2, <2>1, <2>10
    <2>12. n + 1 \in Nat
        OBVIOUS
    <2>13. QED
        BY <2>8, <2>9, <2>11, <2>12
<1>6. QED
    BY <1>4, <1>5

LEMMA CommitKeeps == ASSUME Inv, NEW r \in Requests, Commit(r) PROVE Inv'
<1> USE DEF Inv
<1>1. /\ req' = [req EXCEPT ![r] = [Idle EXCEPT !.pc = "done"]] /\ req[r].pc = "commit"
      /\ [Idle EXCEPT !.pc = "done"] \in Request
    BY IdleTyped DEF Commit, Done
<1>2. /\ req'[r].pc = "done" /\ req'[r].image = NoItems /\ req'[r].new = None
      /\ req'[r].rows = NoItems /\ req'[r].on = None
      /\ \A p \in Requests \ {r} : req'[p] = req[p]
    BY <1>1 DEF TypeOK, Idle
<1>3. TableTyped(items')
    BY CommitGrows
<1>4. TypeOK'
    <2>1. \A x \in Items : items'[x] # None => ("decisions" \in DOMAIN items'[x]) = (x \in Reviews)
        <3> SUFFICES ASSUME NEW x \in Items, NEW y \in Table(x)
                     PROVE  ("decisions" \in DOMAIN y) = (x \in Reviews)
            BY <1>3 DEF TableTyped
        <3>1. QED
            BY DEF Table, Round, Draft, Change
    <2>2. req' \in [Requests -> Request]
        BY <1>1 DEF TypeOK
    <2>3. QED
        BY <2>1, <2>2, CommitGrows DEF TypeOK
<1>5. Checked(r)'
    BY <1>2, IdleTyped, ItemNames DEF Checked, Unwritten, CopyFits, BaseFits, Saving, Holding,
        ItemsFit, ChangesFit, TableTyped, NoItems
<1>6. \A p \in Requests : Checked(p)'
    BY <1>5, CommitOthers
<1>7. OneCreator'
    <2> SUFFICES ASSUME NEW p \in Requests, NEW s \in Requests, NEW c \in Changes, p # s,
                        req'[p].image[c] # None, req'[s].image[c] # None
                 PROVE  items'[c] # None
        BY DEF OneCreator
    <2>1. c \in Items
        BY ItemNames
    <2>2. p # r /\ s # r
        BY <1>2, <2>1 DEF NoItems
    <2>3. items[c] # None
        BY <1>2, <2>2 DEF OneCreator
    <2>4. QED
        BY <2>1, <2>3, CommitGrows
<1>8. NumbersHeld'
    BY <1>2 DEF NumbersHeld, Holding
<1>9. RowsCaptured'
    <2> SUFFICES ASSUME NEW q \in Requirements, row'[q] # None
                 PROVE  /\ \E v \in revisions'[q] : v.no = row'[q].revision
                        /\ Kept(revisions'[q], row'[q].content)
        BY DEF RowsCaptured, Captured, Kept, Numbers
    <2>1. revisions'[q] = revisions[q] \cup (IF req[r].on = q /\ req[r].new # None THEN {req[r].new} ELSE {})
        BY CommitGrows
    <2>2. CASE req[r].on = q
        <3>1. q # None
            BY NoneKnown
        <3>2. row'[q] = MergedRow(row[q], req[r].base, req[r].copy)
            BY <2>2, <3>1 DEF Commit, TypeOK
        <3>3. revisions[q] \cup ({req[r].new} \ {None}) = revisions'[q]
            BY <2>1, <2>2
        <3>4. QED
            BY <1>1, <2>2, <3>1, <3>2, <3>3, CommitRow
    <2>3. CASE req[r].on # q
        <3>1. row'[q] = row[q]
            BY <2>3, CommitGrows
        <3>2. QED
            BY <2>1, <3>1 DEF RowsCaptured, Captured, Kept, Numbers
    <2>4. QED
        BY <2>2, <2>3
<1>10. ItemsKept'
    <2> SUFFICES ASSUME NEW c \in Changes, items'[c] # None
                 PROVE  /\ row'[items'[c].of] # None
                        /\ items'[c].status = "applied" =>
                              \E v \in revisions'[items'[c].of] : Has(v, c, items'[c].patch)
        BY <1>3 DEF ItemsKept, Left, Has
    <2> DEFINE q == items'[c].of  patch == items'[c].patch  y == req[r].image[c]
    <2>1. q \in Requirements
        <3>1. items'[c] \in Change
            BY <1>3, ItemNames DEF TableTyped
        <3>2. QED
            BY <3>1 DEF Change
    <2>2. revisions'[q] = revisions[q] \cup (IF req[r].on = q /\ req[r].new # None THEN {req[r].new} ELSE {})
        BY <2>1, CommitGrows
    <2>3. row[q] # None => row'[q] # None
        BY <2>1, CommitGrows
    <2>4. items[c] # None /\ items[c].of = q /\ items[c].patch = patch =>
             row[q] # None /\ (items[c].status = "applied" => Left(q, c, patch))
        BY DEF ItemsKept
    <2>5. y # None /\ y.of = q /\ y.patch = patch =>
             /\ row[q] # None
             /\ y.status = "applied" =>
                  Left(q, c, patch) \/ (req[r].new # None /\ Has(req[r].new, c, patch) /\ req[r].on = q)
        BY DEF Checked, ChangesFit
    <2>6. \/ /\ items[c] # None /\ items[c].of = q /\ items[c].patch = patch
             /\ items'[c].status = items[c].status
          \/ /\ y # None /\ y.of = q /\ y.patch = patch
             /\ \/ items'[c].status = y.status
                \/ /\ items[c] # None /\ items[c].of = q /\ items[c].patch = patch
                   /\ items'[c].status = items[c].status
        BY CommitChange
    <2>7. /\ row[q] # None
          /\ items'[c].status = "applied" =>
               Left(q, c, patch) \/ (req[r].new # None /\ Has(req[r].new, c, patch) /\ req[r].on = q)
        <3> HIDE DEF q, patch, y
        <3>1. QED
            BY <2>4, <2>5, <2>6
    <2>8. QED
        BY <2>2, <2>3, <2>7 DEF Left
<1>11. QED
    BY <1>4, <1>6, <1>7, <1>8, <1>9, <1>10, CommitDense

-----------------------------------------------------------------------------
(* The theorems *)

LEMMA StepInv == ASSUME Inv, [Next]_vars PROVE Inv'
<1>1. ASSUME NEW r \in Requests,
             \/ Enter(r) \/ Create(r) \/ Patch(r) \/ Transition(r)
             \/ CreateReview(r) \/ DecideReview(r) \/ CreateBaseline(r) \/ ActivateBaseline(r)
             \/ CreateChange(r) \/ TransitionChange(r)
             \/ Save(r) \/ Flush(r) \/ Commit(r) \/ Refuse(r)
      PROVE  Inv'
    BY <1>1, EnterKeeps, CreateKeeps, PatchKeeps, TransitionKeeps, CreateReviewKeeps,
        DecideReviewKeeps, BaselineKeeps, CreateChangeKeeps, TransitionChangeKeeps,
        SaveKeeps, FlushKeeps, CommitKeeps, RefuseKeeps
<1>2. CASE UNCHANGED vars
    <2>1. UNCHANGED <<row, revisions, items, req>>
        BY <1>2 DEF vars
    <2>2. TypeOK' = TypeOK /\ OneCreator' = OneCreator /\ NumbersHeld' = NumbersHeld
        BY <2>1 DEF TypeOK, OneCreator, NumbersHeld
    <2>3. RevisionsDense' = RevisionsDense /\ RowsCaptured' = RowsCaptured /\ ItemsKept' = ItemsKept
        BY <2>1 DEF RevisionsDense, RowsCaptured, ItemsKept, Captured, Kept, Left, Has, Numbers, TableTyped
    <2>4. ASSUME NEW r \in Requests, Checked(r) PROVE Checked(r)'
        <3>1. Unwritten(r)' /\ ItemsFit(r)'
            BY <2>1, <2>4 DEF Checked, Unwritten, ItemsFit, TableTyped
        <3>2. CopyFits(r)'
            BY <2>1, <2>4 DEF Checked, CopyFits, Saving, Captured, Kept, Numbers
        <3>3. BaseFits(r)'
            BY <2>1, <2>4 DEF Checked, BaseFits, Captured, Kept, Numbers
        <3>4. ChangesFit(r)'
            BY <2>1, <2>4 DEF Checked, ChangesFit, Saving, Left, Has
        <3>5. QED
            BY <3>1, <3>2, <3>3, <3>4 DEF Checked
    <2>5. QED
        BY <2>2, <2>3, <2>4 DEF Inv
<1>3. QED
    BY <1>1, <1>2 DEF Next

(* The invariant holds in every state the service reaches, whatever the    *)
(* requests write back and in whatever order they commit.                  *)
THEOREM Invariance == Spec => []Inv
<1>1. Init => Inv
    BY InitInv
<1>2. Inv /\ [Next]_vars => Inv'
    BY StepInv
<1>3. QED
    BY <1>1, <1>2, PTL DEF Spec

(* Every column written over another is one of the same table.             *)
THEOREM TypeCorrect == Spec => []TypeOK
<1>1. Inv => TypeOK
    BY DEF Inv
<1>2. QED
    BY <1>1, Invariance, PTL

(* Numbers without a gap that tell the revisions apart count them.         *)
LEMMA DenseCount ==
    ASSUME RevisionsDense, NEW q \in Requirements
    PROVE  Numbers(q) = 1..Cardinality(revisions[q])
<1>1. PICK n \in Nat : Numbers(q) = 1..n
    BY DEF RevisionsDense
<1> DEFINE f == [v \in revisions[q] |-> v.no]
<1>2. f \in Injection(revisions[q], 1..n) /\ f \in Surjection(revisions[q], 1..n)
    <2>1. \A v \in revisions[q] : v.no \in 1..n
        BY <1>1 DEF Numbers
    <2>2. \A k \in 1..n : \E v \in revisions[q] : v.no = k
        BY <1>1 DEF Numbers
    <2>3. \A v, w \in revisions[q] : v.no = w.no => v = w
        BY DEF RevisionsDense
    <2>4. QED
        BY <2>1, <2>2, <2>3 DEF Injection, Surjection, IsInjective
<1>3. IsFiniteSet(1..n) /\ Cardinality(1..n) = n
    BY FS_Interval
<1>4. Cardinality(revisions[q]) = n
    BY <1>2, <1>3, FS_Injection
<1>5. QED
    BY <1>1, <1>4

(* Whatever requests write back over each other, every column of a         *)
(* requirement holds what a revision froze, and no revision is lost or     *)
(* doubled.                                                                *)
THEOREM EachColumnFrozen == Spec => []ContentIsFrozen
<1>1. Inv => ContentIsFrozen
    BY DenseCount DEF Inv, ContentIsFrozen, RowsCaptured, Captured, Kept
<1>2. QED
    BY <1>1, Invariance, PTL

(* A change that is applied in the table left what it proposed in a        *)
(* revision.                                                               *)
THEOREM AppliedLeaves == Spec => []AppliedLeavesRevision
<1>1. Inv => AppliedLeavesRevision
    BY DEF Inv, AppliedLeavesRevision, ItemsKept, Left, Has
<1>2. QED
    BY <1>1, Invariance, PTL

=============================================================================
