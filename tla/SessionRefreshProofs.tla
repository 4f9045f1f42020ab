------------------------ MODULE SessionRefreshProofs ------------------------
(* Proofs about the two users of the single flight: SessionRefresh, for    *)
(* any sets of sessions, calls and processes, and Dashboard, for any sets  *)
(* of users, requests and domains.                                         *)
EXTENDS SessionRefresh, Dashboard, TLAPS

USE NamesAssumption

-----------------------------------------------------------------------------
(* What the common parts of the actions do *)

LEMMA AcceptEffect ==
  ASSUME TypeOK, NEW c \in Calls, NEW pc \in {"lead", "wait", "ask"}, NEW k \in Kinds,
         NEW w \in Workers \cup {None}, NEW t \in Tokens, NEW f \in Calls \cup {None},
         Accept(c, pc, k, w, t, f)
  PROVE  /\ call' \in [Calls -> Call]
         /\ call[c].pc = "idle"
         /\ call'[c].pc = pc /\ call'[c].answer = None
         /\ call'[c].kind = k /\ call'[c].worker = w
         /\ call'[c].token = t /\ call'[c].flight = f
         /\ \A d \in Calls \ {c} : call'[d] = call[d]
         /\ rows' = rows /\ flight' = flight
  BY DEF Accept, TypeOK, Call

LEMMA AskIamEffect ==
  ASSUME TypeOK, NEW c \in Calls, AskIam(c)
  PROVE  /\ iam' \in [Calls -> IamRequest]
         /\ iam'[c].step = "find" /\ iam'[c].session = iam[c].session
         /\ \A d \in Calls \ {c} : iam'[d] = iam[d]
  <1>1. iam[c] \in IamRequest
    BY DEF TypeOK
  <1>2. [iam[c] EXCEPT !.step = "find"] \in IamRequest
    BY <1>1 DEF IamRequest
  <1> QED
    BY <1>1, <1>2 DEF AskIam, TypeOK, IamRequest

LEMMA StepEffect ==
  ASSUME TypeOK, NEW c \in Calls, NEW step \in {"revoke", "save", "flush", "refused", "done"},
         NEW s \in Sessions \cup {None}, NEW image \in Row, NEW loaded \in Row,
         Step(c, step, s, image, loaded)
  PROVE  /\ iam' \in [Calls -> IamRequest]
         /\ iam'[c].step = step /\ iam'[c].session = s
         /\ iam'[c].image = image /\ iam'[c].loaded = loaded
         /\ \A d \in Calls \ {c} : iam'[d] = iam[d]
  BY DEF Step, TypeOK, IamRequest

LEMMA RowTypes ==
  ASSUME TypeOK, NEW c \in Calls
  PROVE  /\ NoRow \in Row
         /\ iam[c].image \in Row /\ iam[c].loaded \in Row
         /\ iam[c].session \in Sessions \cup {None}
         /\ \A s \in Sessions : /\ rows[s] \in Row
                               /\ Rotated(rows[s], c) \in Row
                               /\ [rows[s] EXCEPT !.status = "revoked"] \in Row
  <1>1. NoRow \in Row
    BY DEF NoRow, Row
  <1>2. ASSUME NEW s \in Sessions
        PROVE  rows[s] \in Row /\ Rotated(rows[s], c) \in Row /\ [rows[s] EXCEPT !.status = "revoked"] \in Row
    <2>1. rows[s] \in Row
      BY DEF TypeOK
    <2>2. [rows[s] EXCEPT !.previous = rows[s].current] \in Row
      BY <2>1 DEF Row
    <2> QED
      BY <2>1, <2>2 DEF Row, Rotated, Tokens
  <1> QED
    BY <1>1, <1>2 DEF TypeOK, IamRequest

LEMMA MergedType ==
  ASSUME NEW row \in Row, NEW image \in Row, NEW loaded \in Row
  PROVE  /\ Merged(row, image, loaded) \in Row
         /\ Merged(row, image, loaded).status =
                IF image.status # loaded.status THEN image.status ELSE row.status
         /\ Merged(row, image, loaded).current =
                IF image.current # loaded.current THEN image.current ELSE row.current
         /\ Merged(row, image, loaded).previous =
                IF image.previous # loaded.previous THEN image.previous ELSE row.previous
  BY DEF Merged, Row

LEMMA FinishEffect ==
  ASSUME TypeOK, NEW c \in Calls, NEW a \in Calls \cup {None}, Finish(c, a)
  PROVE  /\ call' \in [Calls -> Call]
         /\ call'[c].pc = "done" /\ call'[c].answer = a
         /\ call'[c].kind = call[c].kind /\ call'[c].worker = call[c].worker
         /\ call'[c].token = call[c].token /\ call'[c].flight = call[c].flight
         /\ \A d \in Calls \ {c} : call'[d] = call[d]
  <1>1. call[c] \in Call
    BY DEF TypeOK
  <1>2. [[call[c] EXCEPT !.pc = "done"] EXCEPT !.answer = a] \in Call
    BY <1>1 DEF Call
  <1> QED
    BY <1>1, <1>2 DEF Finish, TypeOK, Call

LEMMA LeaveEffect ==
  ASSUME TypeOK, NEW c \in Calls, call' = [call EXCEPT ![c].pc = "leave"]
  PROVE  /\ call' \in [Calls -> Call]
         /\ call'[c].pc = "leave" /\ call'[c].answer = call[c].answer
         /\ call'[c].kind = call[c].kind /\ call'[c].worker = call[c].worker
         /\ call'[c].token = call[c].token /\ call'[c].flight = call[c].flight
         /\ \A d \in Calls \ {c} : call'[d] = call[d]
  BY DEF TypeOK, Call

-----------------------------------------------------------------------------
(* A request at IAM that acts on a session has found one; whoever waits    *)
(* waits on a flight.                                                      *)
Placed(c) ==
    /\ iam[c].step \in {"revoke", "save", "flush"} => iam[c].session \in Sessions
    /\ call[c].pc = "wait" => call[c].flight \in Calls

Typed == TypeOK /\ \A c \in Calls : Placed(c)

LEMMA TypedInit == Init => Typed
  BY DEF Init, Typed, Placed, TypeOK, NoRow, Row, NoRequest, IamRequest, NoCall, Call, Kinds, NewFlight, Flight

LEMMA IssuedTokens == TypeOK => Issued \subseteq Tokens
  BY DEF TypeOK, Issued, Tokens, Call

(* A step of one call leaves the others where they are.                    *)
LEMMA PlacedKept ==
  ASSUME Typed, NEW c \in Calls, Placed(c)',
         \A d \in Calls \ {c} : call'[d] = call[d] /\ iam'[d] = iam[d]
  PROVE  \A d \in Calls : Placed(d)'
  BY DEF Typed, Placed

LEMMA ReceiveTyped == ASSUME Typed, NEW c \in Calls, Receive(c) PROVE Typed'
  <1> TypeOK
    BY DEF Typed
  <1>1. CASE Lead(c)
    <2>1. PICK w \in Workers, t \in Issued : /\ flights' = [flights EXCEPT ![w][t] = c]
                                             /\ Accept(c, "lead", "proxy", w, t, c)
      BY <1>1 DEF Lead
    <2>2. t \in Tokens /\ AskIam(c)
      BY <1>1, IssuedTokens DEF Lead
    <2>3. flights' \in [Workers -> [Tokens -> Calls \cup {None}]]
      BY <2>1, <2>2 DEF TypeOK
    <2>4. TypeOK'
      BY <2>1, <2>2, <2>3, AcceptEffect, AskIamEffect DEF Kinds, TypeOK
    <2>5. /\ \A d \in Calls \ {c} : call'[d] = call[d] /\ iam'[d] = iam[d]
          /\ call'[c].pc = "lead" /\ iam'[c].step = "find"
      BY <2>1, <2>2, AcceptEffect, AskIamEffect DEF Kinds
    <2> QED
      BY <2>4, <2>5, PlacedKept DEF Typed, Placed
  <1>2. CASE Follow(c)
    <2>1. PICK w \in Workers, t \in Issued : \E f \in Join(w, t) : Accept(c, "wait", "proxy", w, t, f)
      BY <1>2 DEF Follow
    <2>2. t \in Tokens
      BY IssuedTokens
    <2>3. PICK f \in Join(w, t) : Accept(c, "wait", "proxy", w, t, f)
      BY <2>1
    <2>4. f \in Calls
      BY <2>2 DEF Join, TypeOK
    <2>5. /\ call' \in [Calls -> Call] /\ rows' = rows /\ flight' = flight
          /\ call'[c].pc = "wait" /\ call'[c].flight = f
          /\ \A d \in Calls \ {c} : call'[d] = call[d]
      BY <2>2, <2>3, <2>4, AcceptEffect DEF Kinds
    <2>6. iam' = iam /\ flights' = flights
      BY <1>2 DEF Follow
    <2>7. TypeOK'
      BY <2>5, <2>6 DEF TypeOK
    <2> QED
      BY <2>4, <2>5, <2>6, <2>7, PlacedKept DEF Typed, Placed
  <1>3. CASE Ask(c)
    <2>1. PICK k \in {"refresh", "logout"}, t \in Issued : Accept(c, "ask", k, None, t, None)
      BY <1>3 DEF Ask
    <2>2. t \in Tokens /\ AskIam(c) /\ flights' = flights
      BY <1>3, IssuedTokens DEF Ask
    <2>3. /\ call' \in [Calls -> Call] /\ rows' = rows /\ flight' = flight
          /\ call'[c].pc = "ask"
          /\ \A d \in Calls \ {c} : call'[d] = call[d]
      BY <2>1, <2>2, AcceptEffect DEF Kinds
    <2>4. TypeOK'
      BY <2>2, <2>3, AskIamEffect DEF TypeOK
    <2>5. iam'[c].step = "find" /\ \A d \in Calls \ {c} : iam'[d] = iam[d]
      BY <2>2, AskIamEffect
    <2> QED
      BY <2>3, <2>4, <2>5, PlacedKept DEF Typed, Placed
  <1> QED
    BY <1>1, <1>2, <1>3 DEF Receive

(* What the actions of IAM do, in the terms the proofs use.                *)
Moves(c, step, s, image, loaded) ==
    /\ Step(c, step, s, image, loaded)
    /\ step \in {"revoke", "save", "flush", "refused", "done"}
    /\ s \in Sessions \cup {None} /\ image \in Row /\ loaded \in Row
    /\ step \in {"revoke", "save", "flush"} => s \in Sessions

LEMMA MovesTyped ==
  ASSUME Typed, NEW c \in Calls, NEW step, NEW s, NEW image, NEW loaded,
         Moves(c, step, s, image, loaded), AtIam, rows' \in [Sessions -> Row]
  PROVE  Typed'
  <1> TypeOK
    BY DEF Typed
  <1>1. /\ iam' \in [Calls -> IamRequest]
        /\ iam'[c].step = step /\ iam'[c].session = s
        /\ \A d \in Calls \ {c} : iam'[d] = iam[d]
    BY StepEffect DEF Moves
  <1>2. call' = call /\ flights' = flights /\ flight' = flight
    BY DEF AtIam
  <1>3. TypeOK'
    BY <1>1, <1>2 DEF TypeOK
  <1>4. Placed(c)'
    BY <1>1, <1>2 DEF Moves, Typed, Placed
  <1> QED
    BY <1>1, <1>2, <1>3, <1>4, PlacedKept DEF Typed

LEMMA MoveEffect ==
  ASSUME Typed, NEW c \in Calls, NEW step, NEW s, NEW image, NEW loaded,
         Moves(c, step, s, image, loaded)
  PROVE  iam'[c].step = step /\ iam'[c].session = s
  BY StepEffect DEF Moves, Typed

LEMMA IamMoves ==
  ASSUME Typed, NEW c \in Calls
  PROVE  /\ FindToRefresh(c) =>
              \/ Moves(c, "refused", iam[c].session, NoRow, NoRow)
              \/ \E s \in Usable(call[c].token) :
                   \/ Reused(s, call[c].token) /\ Moves(c, "revoke", s, NoRow, NoRow)
                   \/ /\ ~Reused(s, call[c].token)
                      /\ Moves(c, "save", s, Rotated(rows[s], c), NoRow)
         /\ FindToLogOut(c) =>
              \/ Moves(c, "done", None, NoRow, NoRow)
              \/ \E s \in Usable(call[c].token) :
                   Moves(c, "save", s, [rows[s] EXCEPT !.status = "revoked"], NoRow)
         /\ UserInactive(c) => Moves(c, "refused", iam[c].session, NoRow, NoRow)
         /\ RevokeFamily(c) => Moves(c, "refused", iam[c].session, NoRow, NoRow)
         /\ Load(c) => Moves(c, "flush", iam[c].session, iam[c].image, rows[iam[c].session])
         /\ Flush(c) => Moves(c, "done", iam[c].session, NoRow, NoRow)
  <1>1. TypeOK /\ Placed(c)
    BY DEF Typed
  <1>2. Usable(call[c].token) \subseteq Sessions
    BY DEF Usable, Matches
  <1>3. FindToRefresh(c) =>
              \/ Moves(c, "refused", iam[c].session, NoRow, NoRow)
              \/ \E s \in Usable(call[c].token) :
                   \/ Reused(s, call[c].token) /\ Moves(c, "revoke", s, NoRow, NoRow)
                   \/ /\ ~Reused(s, call[c].token)
                      /\ Moves(c, "save", s, Rotated(rows[s], c), NoRow)
    BY <1>1, <1>2, RowTypes DEF FindToRefresh, Reject, Moves
  <1>4. FindToLogOut(c) =>
              \/ Moves(c, "done", None, NoRow, NoRow)
              \/ \E s \in Usable(call[c].token) :
                   Moves(c, "save", s, [rows[s] EXCEPT !.status = "revoked"], NoRow)
    BY <1>1, <1>2, RowTypes DEF FindToLogOut, Moves
  <1>5. /\ UserInactive(c) => Moves(c, "refused", iam[c].session, NoRow, NoRow)
        /\ RevokeFamily(c) => Moves(c, "refused", iam[c].session, NoRow, NoRow)
    BY <1>1, RowTypes DEF UserInactive, RevokeFamily, Reject, Moves
  <1>6. /\ Load(c) => Moves(c, "flush", iam[c].session, iam[c].image, rows[iam[c].session])
        /\ Flush(c) => Moves(c, "done", iam[c].session, NoRow, NoRow)
    BY <1>1, RowTypes DEF Load, Flush, Placed, Moves
  <1> QED
    BY <1>3, <1>4, <1>5, <1>6

LEMMA IamRows ==
  ASSUME Typed, NEW c \in Calls, Iam(c)
  PROVE  AtIam /\ rows' \in [Sessions -> Row]
  <1> TypeOK /\ Placed(c)
    BY DEF Typed
  <1>1. CASE UNCHANGED rows
    BY <1>1 DEF TypeOK, Iam, FindToRefresh, FindToLogOut, UserInactive, RevokeFamily, Load, Flush
  <1>2. CASE RevokeFamily(c)
    <2>1. iam[c].session \in Sessions /\ rows[iam[c].session] \in Row
      BY <1>2 DEF RevokeFamily, Placed, TypeOK
    <2>2. [rows[iam[c].session] EXCEPT !.status = IF @ = "active" THEN "revoked" ELSE @] \in Row
      BY <2>1 DEF Row
    <2> QED
      BY <1>2, <2>1, <2>2 DEF RevokeFamily, TypeOK
  <1>3. CASE Flush(c)
    BY <1>3, MergedType, RowTypes DEF Flush, Placed, TypeOK
  <1> QED
    BY <1>1, <1>2, <1>3 DEF Iam, FindToRefresh, FindToLogOut, UserInactive, Load

LEMMA IamTyped == ASSUME Typed, NEW c \in Calls, Iam(c) PROVE Typed'
  <1>1. \E step, s, image, loaded : Moves(c, step, s, image, loaded)
    BY IamMoves DEF Iam
  <1>2. AtIam /\ rows' \in [Sessions -> Row]
    BY IamRows
  <1> QED
    BY <1>1, <1>2, MovesTyped

(* What the actions of the gateway do: they move one call and keep what it *)
(* came with.                                                              *)
Ends(c, a) == a \in Calls \cup {None} /\ Finish(c, a) /\ AtGateway

LEMMA EndsTyped ==
  ASSUME Typed, NEW c \in Calls, NEW a, Ends(c, a), flight' = flight,
         flights' \in [Workers -> [Tokens -> Calls \cup {None}]]
  PROVE  Typed'
  <1> TypeOK
    BY DEF Typed
  <1>1. /\ call' \in [Calls -> Call] /\ call'[c].pc = "done"
        /\ \A d \in Calls \ {c} : call'[d] = call[d]
    BY FinishEffect DEF Ends
  <1>2. rows' = rows /\ iam' = iam
    BY DEF Ends, AtGateway
  <1>3. TypeOK'
    BY <1>1, <1>2 DEF TypeOK
  <1>4. Placed(c)'
    BY <1>1, <1>2 DEF Typed, Placed
  <1> QED
    BY <1>1, <1>2, <1>3, <1>4, PlacedKept DEF Typed

LEMMA GatewayEnds ==
  ASSUME Typed, NEW c \in Calls
  PROVE  /\ Pair(c) \in {c, None}
         /\ Pop(c) => Ends(c, flight[c].result) /\ flight' = flight
         /\ Observe(c) => Ends(c, flight[call[c].flight].result) /\ UNCHANGED <<flights, flight>>
         /\ TimeOut(c) => Ends(c, None) /\ UNCHANGED <<flights, flight>>
         /\ Reply(c) => (Ends(c, Pair(c)) \/ Ends(c, None)) /\ UNCHANGED <<flights, flight>>
  <1>1. Pair(c) \in {c, None}
    BY DEF Pair
  <1>2. \A f \in Calls : flight[f].result \in Calls \cup {None}
    BY DEF Typed, TypeOK, Flight
  <1>3. Observe(c) => call[c].flight \in Calls
    BY DEF Typed, Placed, Observe
  <1> QED
    BY <1>1, <1>2, <1>3 DEF Pop, Observe, TimeOut, Reply, Ends

LEMMA GatewayTyped == ASSUME Typed, NEW c \in Calls, Gateway(c) PROVE Typed'
  <1> TypeOK
    BY DEF Typed
  <1>1. CASE Publish(c) \/ Raise(c)
    <2>1. flight' \in [Calls -> Flight]
      <3>1. [complete |-> TRUE, result |-> Pair(c)] \in Flight
        BY GatewayEnds DEF Flight
      <3> QED
        BY <1>1, <3>1 DEF Publish, Raise, TypeOK
    <2>2. /\ call' \in [Calls -> Call] /\ call'[c].pc = "leave"
          /\ \A d \in Calls \ {c} : call'[d] = call[d]
      BY <1>1, LeaveEffect DEF Publish, Raise
    <2>3. rows' = rows /\ iam' = iam /\ flights' = flights
      BY <1>1 DEF Publish, Raise, AtGateway
    <2>4. TypeOK'
      BY <2>1, <2>2, <2>3 DEF TypeOK
    <2>5. Placed(c)'
      BY <2>2, <2>3 DEF Typed, Placed
    <2> QED
      BY <2>2, <2>3, <2>4, <2>5, PlacedKept DEF Typed
  <1>2. CASE Pop(c)
    <2>1. flights' \in [Workers -> [Tokens -> Calls \cup {None}]]
      <3>1. ASSUME NEW w, NEW t PROVE [flights EXCEPT ![w][t] = None] \in [Workers -> [Tokens -> Calls \cup {None}]]
        BY DEF TypeOK
      <3> QED
        BY <1>2, <3>1 DEF Pop
    <2> QED
      BY <1>2, <2>1, GatewayEnds, EndsTyped
  <1>3. CASE Observe(c) \/ TimeOut(c) \/ Reply(c)
    BY <1>3, GatewayEnds, EndsTyped DEF TypeOK
  <1> QED
    BY <1>1, <1>2, <1>3 DEF Gateway

LEMMA LoginTyped == ASSUME Typed, NEW s \in Sessions, Login(s) PROVE Typed'
  BY DEF Typed, Placed, TypeOK, Login, Row, Tokens

LEMMA StutterTyped == ASSUME Typed, UNCHANGED vars PROVE Typed'
  BY DEF Typed, Placed, TypeOK, vars

LEMMA TypedAlways == Spec => []Typed
  <1>1. Typed /\ [Next]_vars => Typed'
    BY ReceiveTyped, IamTyped, GatewayTyped, LoginTyped, StutterTyped DEF Next
  <1> QED
    BY <1>1, TypedInit, PTL DEF Spec

(* The variables keep their types, whatever the calls and IAM do.          *)
THEOREM TypeCorrect == Spec => []TypeOK
  BY TypedAlways, PTL DEF Typed

-----------------------------------------------------------------------------
(* The flights.  The table and the leaders determine each other; a flight  *)
(* delivers what its leader obtained, to calls that came with its token.   *)

TableLeads ==
    \A w \in Workers, t \in Tokens : flights[w][t] # None =>
        LET c == flights[w][t] IN Leading(c) /\ call[c].worker = w /\ call[c].token = t

Leads(c) ==
    Leading(c) =>
        /\ call[c].kind = "proxy" /\ call[c].worker \in Workers /\ call[c].token \in Tokens
        /\ flights[call[c].worker][call[c].token] = c

Delivers(c) ==
    /\ flight[c].result \in {c, None}
    /\ call[c].pc = "idle" => flight[c].result = None

Waits(c) ==
    call[c].pc = "wait" =>
        /\ call[c].flight # c /\ call[call[c].flight].pc # "idle"
        /\ call[call[c].flight].token = call[c].token

AnswerFits(c) ==
    call[c].answer # None =>
        call[call[c].answer].pc # "idle" /\ call[call[c].answer].token = call[c].token

GatewayPart(c) == Leads(c) /\ Delivers(c) /\ Waits(c) /\ AnswerFits(c)

GatewayInv == Typed /\ TableLeads /\ \A c \in Calls : GatewayPart(c)

LEMMA GatewayInvInit == Init => GatewayInv
  BY TypedInit DEF Init, GatewayInv, TableLeads, GatewayPart, Leads, Delivers, Waits, AnswerFits,
                   Leading, NoCall, NewFlight

(* A call that has begun keeps the token it came with.                     *)
KeepsToken(c) == call[c].pc # "idle" => call'[c].pc # "idle" /\ call'[c].token = call[c].token

LEMMA GatewayPartKept ==
  ASSUME GatewayInv, NEW d \in Calls, call'[d] = call[d], flight'[d] = flight[d],
         Leading(d) => flights'[call[d].worker][call[d].token] = d,
         \A e \in Calls : KeepsToken(e)
  PROVE  GatewayPart(d)'
  <1>1. GatewayPart(d) /\ Placed(d) /\ call[d] \in Call
    BY DEF GatewayInv, Typed, TypeOK
  <1>2. Leads(d)' /\ Delivers(d)'
    BY <1>1 DEF GatewayPart, Leads, Delivers, Leading
  <1>3. Waits(d)'
    BY <1>1 DEF GatewayPart, Waits, Placed, KeepsToken
  <1>4. AnswerFits(d)'
    BY <1>1 DEF GatewayPart, AnswerFits, Call, KeepsToken
  <1> QED
    BY <1>2, <1>3, <1>4 DEF GatewayPart

LEMMA GatewayInvLead == ASSUME GatewayInv, NEW c \in Calls, Lead(c) PROVE GatewayInv'
  <1> TypeOK /\ Typed'
    BY ReceiveTyped DEF GatewayInv, Typed, Receive
  <1>1. PICK w \in Workers, t \in Issued : /\ Free(w, t)
                                           /\ flights' = [flights EXCEPT ![w][t] = c]
                                           /\ Accept(c, "lead", "proxy", w, t, c)
    BY DEF Lead
  <1>2. t \in Tokens
    BY IssuedTokens
  <1>3. /\ call[c].pc = "idle" /\ call'[c].pc = "lead" /\ call'[c].answer = None
        /\ call'[c].kind = "proxy" /\ call'[c].worker = w /\ call'[c].token = t
        /\ \A d \in Calls \ {c} : call'[d] = call[d]
        /\ flight' = flight
    BY <1>1, <1>2, AcceptEffect DEF Kinds
  <1>4. \A v \in Workers, u \in Tokens :
           flights'[v][u] = IF v = w /\ u = t THEN c ELSE flights[v][u]
    BY <1>1, <1>2 DEF TypeOK
  <1>5. \A e \in Calls : KeepsToken(e)
    BY <1>3 DEF KeepsToken
  <1>6. TableLeads'
    <2> SUFFICES ASSUME NEW v \in Workers, NEW u \in Tokens, flights'[v][u] # None
                 PROVE  /\ call'[flights'[v][u]].pc \in {"lead", "leave"}
                        /\ call'[flights'[v][u]].worker = v /\ call'[flights'[v][u]].token = u
      BY DEF TableLeads, Leading
    <2>1. CASE v = w /\ u = t
      BY <2>1, <1>3, <1>4 DEF Leading
    <2>2. CASE ~(v = w /\ u = t)
      <3>1. flights'[v][u] = flights[v][u] /\ flights[v][u] \in Calls
        BY <2>2, <1>4 DEF TypeOK
      <3>2. Leading(flights[v][u]) /\ call[flights[v][u]].worker = v /\ call[flights[v][u]].token = u
        BY <3>1 DEF GatewayInv, TableLeads
      <3> QED
        BY <3>1, <3>2, <1>3 DEF Leading
    <2> QED
      BY <2>1, <2>2
  <1>7. GatewayPart(c)'
    <2>1. flights'[w][t] = c
      BY <1>2, <1>4
    <2>2. Delivers(c)
      BY DEF GatewayInv, GatewayPart
    <2> QED
      BY <2>1, <2>2, <1>2, <1>3 DEF GatewayPart, Leads, Delivers, Waits, AnswerFits
  <1>8. ASSUME NEW d \in Calls \ {c} PROVE GatewayPart(d)'
    <2>1. Leading(d) => flights'[call[d].worker][call[d].token] = d
      <3>1. Leads(d)
        BY DEF GatewayInv, GatewayPart
      <3> QED
        BY <3>1, <1>1, <1>4, NamesAssumption DEF Leads, Free
    <2> QED
      BY <2>1, <1>3, <1>5, GatewayPartKept
  <1> QED
    BY <1>6, <1>7, <1>8 DEF GatewayInv

(* Steps that leave the table and the other calls alone.                   *)
LEMMA TableLeadsKept ==
  ASSUME GatewayInv, flights' = flights, NEW c \in Calls,
         \A d \in Calls \ {c} : call'[d] = call[d],
         Leading(c) => Leading(c)' /\ call'[c].worker = call[c].worker /\ call'[c].token = call[c].token
  PROVE  TableLeads'
  <1> SUFFICES ASSUME NEW w \in Workers, NEW t \in Tokens, flights[w][t] # None
               PROVE  /\ call'[flights[w][t]].pc \in {"lead", "leave"}
                      /\ call'[flights[w][t]].worker = w /\ call'[flights[w][t]].token = t
    BY DEF TableLeads, Leading
  <1>1. flights[w][t] \in Calls
    BY DEF GatewayInv, Typed, TypeOK
  <1>2. Leading(flights[w][t]) /\ call[flights[w][t]].worker = w /\ call[flights[w][t]].token = t
    BY DEF GatewayInv, TableLeads
  <1> QED
    BY <1>1, <1>2 DEF Leading

LEMMA GatewayInvJoin == ASSUME GatewayInv, NEW c \in Calls, Follow(c) \/ Ask(c) PROVE GatewayInv'
  <1> TypeOK /\ Typed'
    BY ReceiveTyped DEF GatewayInv, Typed, Receive
  <1>1. PICK pc \in {"wait", "ask"}, k \in Kinds, w \in Workers \cup {None}, t \in Tokens, f \in Calls \cup {None} :
           /\ Accept(c, pc, k, w, t, f)
           /\ pc = "wait" => w \in Workers /\ f = flights[w][t] /\ f # None
    <2>1. CASE Follow(c)
      <3>1. PICK w \in Workers, t \in Issued : \E f \in Join(w, t) : Accept(c, "wait", "proxy", w, t, f)
        BY <2>1 DEF Follow
      <3>2. t \in Tokens
        BY IssuedTokens
      <3>3. flights[w][t] \in Calls /\ flights[w][t] # None /\ Accept(c, "wait", "proxy", w, t, flights[w][t])
        BY <3>1, <3>2 DEF Join, TypeOK
      <3> QED
        BY <3>2, <3>3 DEF Kinds
    <2>2. CASE Ask(c)
      <3>1. PICK k \in {"refresh", "logout"}, t \in Issued : Accept(c, "ask", k, None, t, None)
        BY <2>2 DEF Ask
      <3> QED
        BY <3>1, IssuedTokens DEF Kinds
    <2> QED
      BY <2>1, <2>2
  <1>2. /\ call[c].pc = "idle" /\ call'[c].pc = pc /\ call'[c].answer = None
        /\ call'[c].token = t /\ call'[c].flight = f
        /\ \A d \in Calls \ {c} : call'[d] = call[d]
        /\ flight' = flight /\ flights' = flights
    BY <1>1, AcceptEffect DEF Follow, Ask
  <1>3. \A e \in Calls : KeepsToken(e)
    BY <1>2 DEF KeepsToken
  <1>4. TableLeads'
    BY <1>2, TableLeadsKept DEF Leading
  <1>5. GatewayPart(c)'
    <2>1. Delivers(c)
      BY DEF GatewayInv, GatewayPart
    <2>2. pc = "wait" => f \in Calls /\ Leading(f) /\ call[f].token = t
      BY <1>1 DEF GatewayInv, TableLeads
    <2>3. Waits(c)'
      BY <2>2, <1>1, <1>2 DEF Waits, Leading
    <2> QED
      BY <2>1, <2>3, <1>2 DEF GatewayPart, Leads, Leading, Delivers, AnswerFits
  <1>6. ASSUME NEW d \in Calls \ {c} PROVE GatewayPart(d)'
    BY <1>2, <1>3, GatewayPartKept DEF GatewayInv, GatewayPart, Leads
  <1> QED
    BY <1>4, <1>5, <1>6 DEF GatewayInv

LEMMA GatewayInvLeave == ASSUME GatewayInv, NEW c \in Calls, Publish(c) \/ Raise(c) PROVE GatewayInv'
  <1> TypeOK /\ Typed'
    BY GatewayTyped DEF GatewayInv, Typed, Gateway
  <1>1. /\ call[c].pc = "lead" /\ call'[c].pc = "leave" /\ call'[c].answer = call[c].answer
        /\ call'[c].kind = call[c].kind /\ call'[c].worker = call[c].worker
        /\ call'[c].token = call[c].token
        /\ \A d \in Calls \ {c} : call'[d] = call[d]
        /\ flights' = flights
    BY LeaveEffect DEF Publish, Raise
  <1>2. flight'[c].result \in {c, None} /\ \A d \in Calls \ {c} : flight'[d] = flight[d]
    <2>1. Delivers(c) /\ Pair(c) \in {c, None}
      BY GatewayEnds DEF GatewayInv, GatewayPart
    <2> QED
      BY <2>1 DEF Publish, Raise, Delivers, TypeOK
  <1>3. \A e \in Calls : KeepsToken(e)
    BY <1>1 DEF KeepsToken
  <1>4. TableLeads'
    BY <1>1, TableLeadsKept DEF Leading
  <1>5. GatewayPart(c)'
    <2>1. Leads(c) /\ AnswerFits(c)
      BY DEF GatewayInv, GatewayPart
    <2>2. call[c].answer \in Calls \cup {None}
      BY DEF TypeOK, Call
    <2>3. AnswerFits(c)'
      BY <2>1, <2>2, <1>1, <1>3 DEF AnswerFits, KeepsToken
    <2> QED
      BY <2>1, <2>3, <1>1, <1>2 DEF GatewayPart, Leads, Leading, Delivers, Waits
  <1>6. ASSUME NEW d \in Calls \ {c} PROVE GatewayPart(d)'
    BY <1>1, <1>2, <1>3, GatewayPartKept DEF GatewayInv, GatewayPart, Leads
  <1> QED
    BY <1>4, <1>5, <1>6 DEF GatewayInv

LEMMA GatewayInvEnds ==
  ASSUME GatewayInv, Typed', NEW c \in Calls, NEW a, Ends(c, a), flight' = flight,
         call[c].pc # "idle",
         a # None => call[a].pc # "idle" /\ call[a].token = call[c].token,
         \A d \in Calls \ {c} : Leading(d) => flights'[call[d].worker][call[d].token] = d
  PROVE  /\ \A d \in Calls : GatewayPart(d)'
         /\ call'[c].pc = "done" /\ \A d \in Calls \ {c} : call'[d] = call[d]
  <1> TypeOK
    BY DEF GatewayInv, Typed
  <1>1. /\ a \in Calls \cup {None}
        /\ call'[c].pc = "done" /\ call'[c].answer = a /\ call'[c].token = call[c].token
        /\ \A d \in Calls \ {c} : call'[d] = call[d]
    BY FinishEffect DEF Ends
  <1>2. \A e \in Calls : KeepsToken(e)
    BY <1>1 DEF KeepsToken
  <1>3. GatewayPart(c)'
    <2>1. Delivers(c)
      BY DEF GatewayInv, GatewayPart
    <2>2. AnswerFits(c)'
      BY <1>1, <1>2 DEF AnswerFits, KeepsToken
    <2> QED
      BY <2>1, <2>2, <1>1 DEF GatewayPart, Leads, Leading, Delivers, Waits
  <1>4. ASSUME NEW d \in Calls \ {c} PROVE GatewayPart(d)'
    BY <1>1, <1>2, GatewayPartKept
  <1> QED
    BY <1>1, <1>3, <1>4

LEMMA GatewayInvPop == ASSUME GatewayInv, NEW c \in Calls, Pop(c) PROVE GatewayInv'
  <1> TypeOK /\ Typed'
    BY GatewayTyped DEF GatewayInv, Typed, Gateway
  <1>1. Leads(c) /\ Delivers(c) /\ Leading(c)
    BY DEF GatewayInv, GatewayPart, Pop, Leading
  <1> DEFINE w == call[c].worker
             t == call[c].token
  <1>2. w \in Workers /\ t \in Tokens /\ flights[w][t] = c
    BY <1>1 DEF Leads
  <1>3. \A v \in Workers, u \in Tokens :
           flights'[v][u] = IF v = w /\ u = t THEN None ELSE flights[v][u]
    BY <1>2 DEF Pop, TypeOK
  <1>4. ASSUME NEW d \in Calls \ {c}, Leading(d) PROVE flights'[call[d].worker][call[d].token] = d
    <2>1. call[d].worker \in Workers /\ call[d].token \in Tokens
             /\ flights[call[d].worker][call[d].token] = d
      BY <1>4 DEF GatewayInv, GatewayPart, Leads
    <2> QED
      BY <2>1, <1>2, <1>3
  <1>5. /\ \A d \in Calls : GatewayPart(d)'
        /\ call'[c].pc = "done" /\ \A d \in Calls \ {c} : call'[d] = call[d]
    <2>1. Ends(c, flight[c].result) /\ flight' = flight
      BY GatewayEnds DEF GatewayInv
    <2>2. flight[c].result # None => call[flight[c].result].pc # "idle" /\ call[flight[c].result].token = call[c].token
      BY <1>1 DEF Delivers, Leading
    <2> QED
      BY <2>1, <2>2, <1>1, <1>4, GatewayInvEnds DEF Leading
  <1>6. TableLeads'
    <2> SUFFICES ASSUME NEW v \in Workers, NEW u \in Tokens, flights'[v][u] # None
                 PROVE  /\ call'[flights'[v][u]].pc \in {"lead", "leave"}
                        /\ call'[flights'[v][u]].worker = v /\ call'[flights'[v][u]].token = u
      BY DEF TableLeads, Leading
    <2>1. flights'[v][u] = flights[v][u] /\ flights[v][u] \in Calls /\ ~(v = w /\ u = t)
      BY <1>3 DEF TypeOK
    <2>2. Leading(flights[v][u]) /\ call[flights[v][u]].worker = v /\ call[flights[v][u]].token = u
      BY <2>1 DEF GatewayInv, TableLeads
    <2> QED
      BY <2>1, <2>2, <1>5 DEF Leading
  <1> QED
    BY <1>5, <1>6 DEF GatewayInv

LEMMA GatewayInvAnswer ==
  ASSUME GatewayInv, NEW c \in Calls, Observe(c) \/ TimeOut(c) \/ Reply(c)
  PROVE  GatewayInv'
  <1> Typed'
    BY GatewayTyped DEF GatewayInv, Gateway
  <1>1. call[c].pc \in {"wait", "ask"} /\ flights' = flights /\ flight' = flight
    BY DEF Observe, TimeOut, Reply
  <1>2. \E a : /\ Ends(c, a)
               /\ a # None => call[a].pc # "idle" /\ call[a].token = call[c].token
    <2>1. CASE Observe(c)
      <3>1. Waits(c) /\ Placed(c)
        BY DEF GatewayInv, GatewayPart, Typed
      <3>2. Delivers(call[c].flight)
        BY <2>1, <3>1 DEF GatewayInv, GatewayPart, Placed, Observe
      <3> QED
        BY <2>1, <3>1, <3>2, GatewayEnds DEF GatewayInv, Waits, Delivers, Observe
    <2>2. CASE TimeOut(c) \/ Reply(c)
      BY <2>2, <1>1, GatewayEnds DEF GatewayInv
    <2> QED
      BY <2>1, <2>2
  <1>3. /\ \A d \in Calls : GatewayPart(d)'
        /\ \A d \in Calls \ {c} : call'[d] = call[d]
    BY <1>1, <1>2, GatewayInvEnds DEF GatewayInv, GatewayPart, Leads
  <1>4. TableLeads'
    BY <1>1, <1>3, TableLeadsKept DEF Leading
  <1> QED
    BY <1>3, <1>4 DEF GatewayInv

LEMMA GatewayInvStill ==
  ASSUME GatewayInv, Typed', UNCHANGED <<call, flights, flight>>
  PROVE  GatewayInv'
  BY DEF GatewayInv, TableLeads, GatewayPart, Leads, Delivers, Waits, AnswerFits, Leading

LEMMA GatewayInvNext == GatewayInv /\ [Next]_vars => GatewayInv'
  <1>1. ASSUME GatewayInv, NEW c \in Calls, Iam(c) PROVE GatewayInv'
    BY <1>1, IamTyped, IamRows, GatewayInvStill DEF GatewayInv, AtIam
  <1>2. ASSUME GatewayInv, NEW s \in Sessions, Login(s) PROVE GatewayInv'
    BY <1>2, LoginTyped, GatewayInvStill DEF GatewayInv, Login
  <1>3. ASSUME GatewayInv, UNCHANGED vars PROVE GatewayInv'
    BY <1>3, StutterTyped, GatewayInvStill DEF GatewayInv, vars
  <1> QED
    BY <1>1, <1>2, <1>3, GatewayInvLead, GatewayInvJoin, GatewayInvLeave, GatewayInvPop, GatewayInvAnswer
       DEF Next, Receive, Gateway

LEMMA GatewayInvAlways == Spec => []GatewayInv
  BY GatewayInvInit, GatewayInvNext, PTL DEF Spec

(* One exchange per process and token at a time, and no flight is left in  *)
(* the table without the call that leads it.                               *)
THEOREM OneFlightCorrect == Spec => []OneFlight
  <1>1. GatewayInv => OneFlight
    BY DEF GatewayInv, GatewayPart, TableLeads, Leads, OneFlight
  <1> QED
    BY <1>1, GatewayInvAlways, PTL

(* Whoever obtained the tokens of an answer came with the same token.      *)
THEOREM AnswersOwnTokenCorrect == Spec => []AnswersOwnToken
  <1>1. GatewayInv => AnswersOwnToken
    BY DEF GatewayInv, GatewayPart, AnswerFits, AnswersOwnToken
  <1> QED
    BY <1>1, GatewayInvAlways, PTL

-----------------------------------------------------------------------------
(* The sessions.  Every token in a row, or on its way into one, belongs to *)
(* the session of the row.                                                 *)

Owns(s, t) ==
    \/ t \in {None, s}
    \/ t \in Calls /\ iam[t].step = "done" /\ iam[t].session = s /\ call[t].kind # "logout"

Obtained(t) ==
    t \in Calls => iam[t].step = "done" /\ iam[t].session \in Sessions /\ call[t].kind # "logout"

Begun(c) ==
    IF call[c].pc = "idle"
    THEN iam[c].step = "none" /\ call[c].kind = "none" /\ call[c].token = None
    ELSE call[c].token \in Tokens /\ call[c].kind # "none" /\ Obtained(call[c].token)

Known(c) ==
    /\ call[c].answer # None => Obtained(call[c].answer)
    /\ flight[c].result # None => Obtained(flight[c].result)

Acting(c) ==
    \/ iam[c].step \in {"revoke", "save", "flush"}
    \/ iam[c].step = "done" /\ call[c].kind # "logout"

ActsOnOwn(c) ==
    Acting(c) =>
        /\ iam[c].session \in Sessions /\ rows[iam[c].session].status # "absent"
        /\ Owns(iam[c].session, call[c].token)

Writes(c) ==
    iam[c].step \in {"save", "flush"} =>
        IF call[c].kind = "logout"
        THEN /\ iam[c].image.status = "revoked"
             /\ Owns(iam[c].session, iam[c].image.current)
             /\ Owns(iam[c].session, iam[c].image.previous)
        ELSE /\ iam[c].image.status = "active"
             /\ iam[c].image.current = c /\ iam[c].image.previous = call[c].token
             /\ iam[c].step = "flush" => iam[c].loaded.current # c

RowOwned(s) == Owns(s, rows[s].current) /\ Owns(s, rows[s].previous)

CallPart(c) == Begun(c) /\ Known(c) /\ ActsOnOwn(c) /\ Writes(c)

OwnInv ==
    /\ GatewayInv
    /\ \A c \in Calls : CallPart(c)
    /\ \A s \in Sessions : RowOwned(s)

LEMMA OwnInvInit == Init => OwnInv
  BY GatewayInvInit DEF Init, OwnInv, CallPart, Begun, Known, ActsOnOwn, Acting, Writes, RowOwned,
                        Owns, NoCall, NewFlight, NoRequest, NoRow

(* What no step undoes.                                                    *)
CallsProgress ==
    \A e \in Calls : call[e].pc # "idle" =>
        call'[e].pc # "idle" /\ call'[e].kind = call[e].kind /\ call'[e].token = call[e].token

Progress ==
    /\ CallsProgress
    /\ \A e \in Calls : iam[e].step = "done" => iam'[e] = iam[e]
    /\ \A s \in Sessions : rows[s].status # "absent" => rows'[s].status # "absent"

LEMMA GatewayProgress ==
  ASSUME OwnInv, NEW c \in Calls, Receive(c) \/ Gateway(c)
  PROVE  /\ Progress /\ rows' = rows
         /\ \A d \in Calls \ {c} : call'[d] = call[d] /\ iam'[d] = iam[d]
  <1> TypeOK /\ GatewayInv
    BY DEF OwnInv, GatewayInv, Typed
  <1> USE DEF Progress, CallsProgress
  <1>1. CASE Receive(c)
    <2>1. /\ call[c].pc = "idle" /\ rows' = rows
          /\ \A d \in Calls \ {c} : call'[d] = call[d]
      BY <1>1 DEF Receive, Lead, Follow, Ask, Accept, TypeOK
    <2>2. \A d \in Calls \ {c} : iam'[d] = iam[d]
      BY <1>1 DEF Receive, Lead, Follow, Ask, AskIam, TypeOK
    <2>3. iam[c].step = "none"
      BY <2>1 DEF OwnInv, CallPart, Begun
    <2> QED
      BY <2>1, <2>2, <2>3
  <1>2. CASE Publish(c) \/ Raise(c)
    BY <1>2, LeaveEffect DEF Publish, Raise, AtGateway
  <1>3. CASE Pop(c) \/ Observe(c) \/ TimeOut(c) \/ Reply(c)
    <2>1. PICK a : Ends(c, a)
      BY <1>3, GatewayEnds DEF GatewayInv
    <2> QED
      BY <2>1, FinishEffect DEF Ends, AtGateway
  <1> QED
    BY <1>1, <1>2, <1>3 DEF Gateway

LEMMA TokensKept ==
  ASSUME OwnInv, Progress, NEW t
  PROVE  /\ Obtained(t) => (t \in Calls => /\ iam'[t].step = "done" /\ iam'[t].session \in Sessions
                                           /\ iam'[t] = iam[t] /\ call'[t].kind # "logout")
         /\ \A s \in Sessions : Owns(s, t) =>
              \/ t \in {None, s}
              \/ t \in Calls /\ iam'[t].step = "done" /\ iam'[t].session = s /\ call'[t].kind # "logout"
  BY DEF OwnInv, CallPart, Begun, Progress, CallsProgress, Obtained, Owns

(* A call that is left alone keeps its part.                               *)
LEMMA CallPartKept ==
  ASSUME OwnInv, Progress, NEW d \in Calls, iam'[d] = iam[d],
         call'[d] = call[d], flight'[d] = flight[d]
  PROVE  CallPart(d)'
  <1>1. CallPart(d) /\ call[d] \in Call /\ iam[d] \in IamRequest
    BY DEF OwnInv, GatewayInv, Typed, TypeOK
  <1>2. Begun(d)'
    BY <1>1, TokensKept DEF CallPart, Begun, Obtained
  <1>3. Known(d)'
    BY <1>1, TokensKept DEF CallPart, Known, Obtained
  <1>4. ActsOnOwn(d)'
    BY <1>1, TokensKept DEF CallPart, ActsOnOwn, Acting, Owns, Progress
  <1>5. Writes(d)'
    <2>1. CASE iam[d].step \in {"save", "flush"}
      <3>1. iam[d].session \in Sessions
        BY <2>1, <1>1 DEF CallPart, ActsOnOwn, Acting
      <3> QED
        BY <2>1, <3>1, <1>1, TokensKept DEF CallPart, Writes, Owns
    <2>2. CASE iam[d].step \notin {"save", "flush"}
      BY <2>2 DEF Writes
    <2> QED
      BY <2>1, <2>2
  <1> QED
    BY <1>2, <1>3, <1>4, <1>5 DEF CallPart

LEMMA RowOwnedKept ==
  ASSUME OwnInv, Progress, NEW s \in Sessions, rows'[s] = rows[s]
  PROVE  RowOwned(s)'
  BY TokensKept DEF OwnInv, RowOwned, Owns

LEMMA OwnInvReceive == ASSUME OwnInv, NEW c \in Calls, Receive(c) PROVE OwnInv'
  <1> TypeOK /\ Typed /\ GatewayInv /\ CallPart(c)
    BY DEF OwnInv, GatewayInv, Typed
  <1>1. GatewayInv' /\ flight' = flight
    <2>1. flight' = flight
      BY DEF Receive, Lead, Follow, Ask, Accept
    <2> QED
      BY <2>1, GatewayInvLead, GatewayInvJoin DEF Receive
  <1>2. Progress /\ rows' = rows /\ \A d \in Calls \ {c} : call'[d] = call[d] /\ iam'[d] = iam[d]
    BY GatewayProgress
  <1>3. PICK pc \in {"lead", "wait", "ask"}, k \in Kinds, w \in Workers \cup {None}, t \in Issued, f \in Calls \cup {None} :
           Accept(c, pc, k, w, t, f)
    <2>1. CASE Lead(c)
      BY <2>1 DEF Lead, Kinds
    <2>2. CASE Follow(c)
      <3>1. PICK w \in Workers, t \in Issued : \E f \in Join(w, t) : Accept(c, "wait", "proxy", w, t, f)
        BY <2>2 DEF Follow
      <3>2. Join(w, t) \subseteq Calls
        BY <3>1, IssuedTokens DEF Join, TypeOK
      <3> QED
        BY <3>1, <3>2 DEF Kinds
    <2>3. CASE Ask(c)
      BY <2>3 DEF Ask, Kinds
    <2> QED
      BY <2>1, <2>2, <2>3 DEF Receive
  <1>4. t \in Tokens /\ Obtained(t)
    <2>1. \A e \in Calls : Known(e)
      BY DEF OwnInv, CallPart
    <2> QED
      BY <2>1, IssuedTokens DEF Issued, Known, Obtained
  <1>5. /\ call[c].pc = "idle" /\ call'[c].pc = pc /\ call'[c].answer = None
        /\ call'[c].kind = k /\ call'[c].token = t
    BY <1>3, <1>4, AcceptEffect
  <1>6. iam[c].step = "none" /\ iam'[c].step \in {"none", "find"}
    <2>1. iam[c].step = "none"
      BY <1>5 DEF CallPart, Begun
    <2>2. iam' = iam \/ AskIam(c)
      BY DEF Receive, Lead, Follow, Ask
    <2> QED
      BY <2>1, <2>2, AskIamEffect
  <1>7. CallPart(c)'
    <2>1. Begun(c)'
      <3>1. t \in Calls => iam'[t].step = "done" /\ iam'[t].session \in Sessions /\ call'[t].kind # "logout"
        BY <1>2, <1>4, TokensKept
      <3> QED
        BY <1>4, <1>5, <3>1 DEF Begun, Obtained, Kinds
    <2>2. Known(c)'
      <3>1. flight[c].result = None
        BY <1>5 DEF GatewayInv, GatewayPart, Delivers
      <3> QED
        BY <1>1, <1>5, <3>1 DEF Known
    <2> QED
      BY <2>1, <2>2, <1>6 DEF CallPart, ActsOnOwn, Acting, Writes
  <1> QED
    BY <1>1, <1>2, <1>7, CallPartKept, RowOwnedKept DEF OwnInv

LEMMA OwnInvGateway == ASSUME OwnInv, NEW c \in Calls, Gateway(c) PROVE OwnInv'
  <1> TypeOK /\ Typed /\ GatewayInv /\ CallPart(c)
    BY DEF OwnInv, GatewayInv, Typed
  <1>1. GatewayInv'
    BY GatewayInvLeave, GatewayInvPop, GatewayInvAnswer DEF Gateway
  <1>2. Progress /\ rows' = rows /\ \A d \in Calls \ {c} : call'[d] = call[d]
    BY GatewayProgress
  <1>3. iam' = iam
    BY DEF Gateway, Publish, Raise, Pop, Observe, TimeOut, Reply, AtGateway
  <1>4. \A d \in Calls \ {c} : flight'[d] = flight[d]
    BY DEF Gateway, Publish, Raise, Pop, Observe, TimeOut, Reply, TypeOK
  <1>5. call[c].pc # "idle"
    BY DEF Gateway, Publish, Raise, Pop, Observe, TimeOut, Reply
  <1>6. Obtained(Pair(c)) \/ Pair(c) = None
    BY DEF Pair, CallPart, ActsOnOwn, Acting, Obtained
  <1>7. /\ flight'[c].result # None => Obtained(flight'[c].result)
        /\ call'[c].answer # None => Obtained(call'[c].answer)
    <2>1. \A e \in Calls : Known(e)
      BY DEF OwnInv, CallPart
    <2>2. CASE Publish(c) \/ Raise(c)
      <3>1. call'[c].answer = call[c].answer
        BY <2>2, LeaveEffect DEF Publish, Raise
      <3>2. flight'[c].result \in {flight[c].result, Pair(c)}
        BY <2>2 DEF Publish, Raise, TypeOK
      <3> QED
        BY <2>1, <3>1, <3>2, <1>6 DEF Known
    <2>3. CASE Pop(c) \/ Observe(c) \/ TimeOut(c) \/ Reply(c)
      <3>1. flight' = flight
        BY <2>3 DEF Pop, Observe, TimeOut, Reply
      <3>2. Observe(c) => call[c].flight \in Calls
        BY DEF Observe, Typed, Placed
      <3>3. PICK a : /\ Ends(c, a)
                     /\ a \in {flight[c].result, None, Pair(c)} \/ (Observe(c) /\ a = flight[call[c].flight].result)
        BY <2>3, GatewayEnds
      <3>4. call'[c].answer = a
        BY <3>3, FinishEffect DEF Ends
      <3> QED
        BY <2>1, <3>1, <3>2, <3>3, <3>4, <1>6 DEF Known
    <2> QED
      BY <2>2, <2>3 DEF Gateway
  <1>8. CallPart(c)'
    <2>1. call'[c].pc # "idle" /\ call'[c].kind = call[c].kind /\ call'[c].token = call[c].token
      BY <1>2, <1>5 DEF Progress, CallsProgress
    <2>2. Begun(c)'
      BY <1>2, <1>5, <2>1, TokensKept DEF CallPart, Begun, Obtained
    <2>3. Known(c)'
      <3>1. PICK a : a = call'[c].answer
        OBVIOUS
      <3>2. PICK b : b = flight'[c].result
        OBVIOUS
      <3>3. /\ a # None => (a \in Calls => iam'[a].step = "done" /\ iam'[a].session \in Sessions /\ call'[a].kind # "logout")
            /\ b # None => (b \in Calls => iam'[b].step = "done" /\ iam'[b].session \in Sessions /\ call'[b].kind # "logout")
        BY <3>1, <3>2, <1>2, <1>7, TokensKept
      <3> QED
        BY <3>1, <3>2, <3>3 DEF Known, Obtained
    <2>4. ActsOnOwn(c)'
      BY <1>2, <1>3, <2>1, TokensKept DEF CallPart, ActsOnOwn, Acting, Owns, Progress
    <2>5. Writes(c)'
      <3>1. iam[c].step \in {"save", "flush"} => iam[c].session \in Sessions
        BY DEF CallPart, ActsOnOwn, Acting
      <3> QED
        BY <3>1, <1>2, <1>3, <2>1, TokensKept DEF CallPart, Writes, Owns
    <2> QED
      BY <2>2, <2>3, <2>4, <2>5 DEF CallPart
  <1> QED
    BY <1>1, <1>2, <1>3, <1>4, <1>8, CallPartKept, RowOwnedKept DEF OwnInv

LEMMA OwnInvLogin == ASSUME OwnInv, NEW s \in Sessions, Login(s) PROVE OwnInv'
  <1> TypeOK /\ Typed /\ GatewayInv
    BY DEF OwnInv, GatewayInv, Typed
  <1>1. GatewayInv'
    BY LoginTyped, GatewayInvStill DEF Login
  <1>2. /\ rows'[s] = [status |-> "active", current |-> s, previous |-> None]
        /\ \A r \in Sessions \ {s} : rows'[r] = rows[r]
        /\ call' = call /\ iam' = iam /\ flight' = flight
    BY DEF Login, TypeOK
  <1>3. Progress
    BY <1>2 DEF Progress, CallsProgress
  <1>4. RowOwned(s)'
    BY <1>2 DEF RowOwned, Owns
  <1> QED
    BY <1>1, <1>2, <1>3, <1>4, CallPartKept, RowOwnedKept DEF OwnInv


LEMMA FlushEffect ==
  ASSUME OwnInv, NEW c \in Calls, Flush(c)
  PROVE  \E s \in Sessions :
           /\ s = iam[c].session
           /\ \A r \in Sessions \ {s} : rows'[r] = rows[r]
           /\ rows[s].status # "absent" /\ rows'[s].status # "absent"
           /\ Owns(s, call[c].token)
           /\ call[c].kind # "logout" =>
                /\ rows'[s].current = c /\ rows'[s].previous \in {rows[s].previous, call[c].token}
                /\ rows'[s].status \in {rows[s].status, "active"}
           /\ call[c].kind = "logout" =>
                /\ Owns(s, iam[c].image.current) /\ Owns(s, iam[c].image.previous)
                /\ rows'[s].current \in {rows[s].current, iam[c].image.current}
                /\ rows'[s].previous \in {rows[s].previous, iam[c].image.previous}
  <1> Typed /\ TypeOK /\ CallPart(c) /\ iam[c].step = "flush"
    BY DEF OwnInv, GatewayInv, Typed, Flush
  <1>1. PICK s \in Sessions : s = iam[c].session
    BY DEF CallPart, ActsOnOwn, Acting
  <1>2. rows'[s] = Merged(rows[s], iam[c].image, iam[c].loaded) /\ \A r \in Sessions \ {s} : rows'[r] = rows[r]
    BY <1>1 DEF Flush, TypeOK
  <1>3. /\ rows'[s].status \in {rows[s].status, iam[c].image.status}
        /\ rows'[s].current \in {rows[s].current, iam[c].image.current}
        /\ rows'[s].previous \in {rows[s].previous, iam[c].image.previous}
        /\ iam[c].image.current # iam[c].loaded.current => rows'[s].current = iam[c].image.current
    <2>1. rows[s] \in Row /\ iam[c].image \in Row /\ iam[c].loaded \in Row
      BY RowTypes
    <2>2. PICK row \in Row, image \in Row, loaded \in Row :
             row = rows[s] /\ image = iam[c].image /\ loaded = iam[c].loaded
      BY <2>1
    <2>3. rows'[s] = Merged(row, image, loaded)
      BY <1>2, <2>2
    <2> QED
      BY <2>2, <2>3, MergedType
  <1>4. rows[s].status # "absent" /\ Owns(s, call[c].token)
    BY <1>1 DEF CallPart, ActsOnOwn, Acting
  <1>5. CASE call[c].kind = "logout"
    BY <1>1, <1>2, <1>3, <1>4, <1>5 DEF CallPart, Writes
  <1>6. CASE call[c].kind # "logout"
    BY <1>1, <1>2, <1>3, <1>4, <1>6 DEF CallPart, Writes
  <1> QED
    BY <1>5, <1>6

LEMMA RevokeEffect ==
  ASSUME OwnInv, NEW c \in Calls, RevokeFamily(c)
  PROVE  \E s \in Sessions :
           /\ s = iam[c].session
           /\ \A r \in Sessions \ {s} : rows'[r] = rows[r]
           /\ rows'[s].current = rows[s].current /\ rows'[s].previous = rows[s].previous
           /\ rows'[s].status \in {rows[s].status, "revoked"}
  <1> Typed /\ TypeOK /\ CallPart(c) /\ iam[c].step = "revoke"
    BY DEF OwnInv, GatewayInv, Typed, RevokeFamily
  <1>1. PICK s \in Sessions : s = iam[c].session
    BY DEF CallPart, ActsOnOwn, Acting
  <1>2. rows'[s] = [rows[s] EXCEPT !.status = IF @ = "active" THEN "revoked" ELSE @]
        /\ \A r \in Sessions \ {s} : rows'[r] = rows[r]
    BY <1>1 DEF RevokeFamily, TypeOK
  <1>3. rows[s] \in Row
    BY DEF TypeOK
  <1> QED
    BY <1>1, <1>2, <1>3 DEF Row

LEMMA IamProgress ==
  ASSUME OwnInv, NEW c \in Calls, Iam(c)
  PROVE  /\ Progress /\ UNCHANGED <<call, flights, flight>>
         /\ iam[c].step \in {"find", "revoke", "save", "flush"} /\ call[c].pc # "idle"
         /\ \A d \in Calls \ {c} : iam'[d] = iam[d]
         /\ RevokeFamily(c) \/ Flush(c) \/ rows' = rows
  <1> Typed /\ TypeOK /\ CallPart(c)
    BY DEF OwnInv, GatewayInv, Typed
  <1>1. UNCHANGED <<call, flights, flight>>
    BY IamRows DEF AtIam
  <1>2. iam[c].step \in {"find", "revoke", "save", "flush"} /\ call[c].pc # "idle"
    BY DEF Iam, FindToRefresh, FindToLogOut, UserInactive, RevokeFamily, Load, Flush, CallPart, Begun
  <1>3. \A d \in Calls \ {c} : iam'[d] = iam[d]
    <2>1. \E step, s, image, loaded : Moves(c, step, s, image, loaded)
      BY IamMoves DEF Iam
    <2> QED
      BY <2>1, StepEffect DEF Moves
  <1>4. RevokeFamily(c) \/ Flush(c) \/ rows' = rows
    BY DEF Iam, FindToRefresh, FindToLogOut, UserInactive, Load
  <1>5. \A s \in Sessions : rows[s].status # "absent" => rows'[s].status # "absent"
    BY <1>4, FlushEffect, RevokeEffect
  <1> QED
    BY <1>1, <1>2, <1>3, <1>4, <1>5 DEF Progress, CallsProgress

(* A session found for a token owns it.                                    *)
LEMMA FoundOwns ==
  ASSUME OwnInv, NEW t \in Tokens, NEW s \in Usable(t)
  PROVE  s \in Sessions /\ rows[s].status = "active" /\ Owns(s, t)
             /\ (~Reused(s, t) => t = rows[s].current) /\ (Reused(s, t) => t = rows[s].previous)
             /\ Owns(s, rows[s].current) /\ Owns(s, rows[s].previous)
  BY DEF OwnInv, RowOwned, Usable, Matches, Reused

LEMMA OwnInvIam == ASSUME OwnInv, NEW c \in Calls, Iam(c) PROVE OwnInv'
  <1> Typed /\ TypeOK /\ GatewayInv /\ CallPart(c)
    BY DEF OwnInv, GatewayInv, Typed
  <1>1. GatewayInv'
    BY IamTyped, IamProgress, GatewayInvStill
  <1>2. /\ Progress /\ UNCHANGED <<call, flights, flight>>
        /\ iam[c].step \in {"find", "revoke", "save", "flush"} /\ call[c].pc # "idle"
        /\ \A d \in Calls \ {c} : iam'[d] = iam[d]
        /\ RevokeFamily(c) \/ Flush(c) \/ rows' = rows
    BY IamProgress
  <1>3. call[c].token \in Tokens
    BY <1>2 DEF CallPart, Begun
  <1>4. Begun(c)' /\ Known(c)'
    <2>1. PICK a : a = call[c].answer
      OBVIOUS
    <2>2. PICK b : b = flight[c].result
      OBVIOUS
    <2>3. PICK t : t = call[c].token
      OBVIOUS
    <2>4. \A x \in {a, b, t} : Obtained(x) => (x \in Calls =>
              iam'[x].step = "done" /\ iam'[x].session \in Sessions /\ call'[x].kind # "logout")
      BY <1>2, TokensKept
    <2> QED
      BY <1>2, <2>1, <2>2, <2>3, <2>4 DEF CallPart, Begun, Known, Obtained
  <1>5. ActsOnOwn(c)' /\ Writes(c)'
    <2>1. ASSUME NEW s \in Sessions, NEW image \in Row, NEW loaded \in Row,
                 NEW step \in {"revoke", "save", "flush", "done"},
                 Step(c, step, s, image, loaded),
                 Owns(s, call[c].token), rows[s].status # "absent",
                 step \in {"save", "flush"} =>
                   IF call[c].kind = "logout"
                   THEN image.status = "revoked" /\ Owns(s, image.current) /\ Owns(s, image.previous)
                   ELSE /\ image.status = "active" /\ image.current = c /\ image.previous = call[c].token
                        /\ step = "flush" => loaded.current # c
          PROVE  ActsOnOwn(c)' /\ Writes(c)'
      <3>1. /\ iam'[c].step = step /\ iam'[c].session = s
            /\ iam'[c].image = image /\ iam'[c].loaded = loaded
        BY <2>1, StepEffect
      <3>2. rows'[s].status # "absent"
        BY <1>2, <2>1 DEF Progress
      <3>3. PICK t : t = call[c].token
        OBVIOUS
      <3>4. \A x : Owns(s, x) => \/ x \in {None, s}
                                 \/ x \in Calls /\ iam'[x].step = "done" /\ iam'[x].session = s
                                      /\ call'[x].kind # "logout"
        BY <1>2, TokensKept
      <3>5. ActsOnOwn(c)'
        BY <1>2, <2>1, <3>1, <3>2, <3>3, <3>4 DEF ActsOnOwn, Acting, Owns
      <3>6. Writes(c)'
        BY <1>2, <2>1, <3>1, <3>4 DEF Writes, Owns
      <3> QED
        BY <3>5, <3>6
    <2>2. CASE iam'[c].step = "refused" \/ (iam'[c].step = "done" /\ call[c].kind = "logout")
      BY <2>2, <1>2 DEF ActsOnOwn, Acting, Writes
    <2>3. CASE FindToRefresh(c) \/ FindToLogOut(c)
      <3>1. \/ iam'[c].step = "refused" \/ (iam'[c].step = "done" /\ call[c].kind = "logout")
            \/ \E s \in Usable(call[c].token) :
                 \/ Step(c, "revoke", s, NoRow, NoRow)
                 \/ /\ ~Reused(s, call[c].token) /\ call[c].kind # "logout"
                    /\ Step(c, "save", s, Rotated(rows[s], c), NoRow)
                 \/ /\ call[c].kind = "logout"
                    /\ Step(c, "save", s, [rows[s] EXCEPT !.status = "revoked"], NoRow)
        BY <2>3, IamMoves, StepEffect DEF Moves, FindToRefresh, FindToLogOut
      <3>2. ASSUME NEW s \in Usable(call[c].token), Step(c, "revoke", s, NoRow, NoRow)
            PROVE  ActsOnOwn(c)' /\ Writes(c)'
        BY <1>3, <2>1, <3>2, FoundOwns, RowTypes
      <3>3. ASSUME NEW s \in Usable(call[c].token), ~Reused(s, call[c].token), call[c].kind # "logout",
                   Step(c, "save", s, Rotated(rows[s], c), NoRow)
            PROVE  ActsOnOwn(c)' /\ Writes(c)'
        <4>1. s \in Sessions /\ rows[s].status = "active" /\ Owns(s, call[c].token) /\ rows[s].current = call[c].token
          BY <1>3, <3>3, FoundOwns
        <4>2. Rotated(rows[s], c).status = "active" /\ Rotated(rows[s], c).current = c
                /\ Rotated(rows[s], c).previous = call[c].token
          BY <4>1 DEF Rotated, TypeOK, Row
        <4> QED
          BY <2>1, <3>3, <4>1, <4>2, RowTypes
      <3>4. ASSUME NEW s \in Usable(call[c].token), call[c].kind = "logout",
                   Step(c, "save", s, [rows[s] EXCEPT !.status = "revoked"], NoRow)
            PROVE  ActsOnOwn(c)' /\ Writes(c)'
        <4>1. s \in Sessions /\ rows[s].status = "active" /\ Owns(s, call[c].token)
                /\ Owns(s, rows[s].current) /\ Owns(s, rows[s].previous)
          BY <1>3, <3>4, FoundOwns
        <4>2. /\ [rows[s] EXCEPT !.status = "revoked"].status = "revoked"
              /\ [rows[s] EXCEPT !.status = "revoked"].current = rows[s].current
              /\ [rows[s] EXCEPT !.status = "revoked"].previous = rows[s].previous
          BY <4>1 DEF TypeOK, Row
        <4> QED
          BY <2>1, <3>4, <4>1, <4>2, RowTypes
      <3> QED
        BY <2>2, <3>1, <3>2, <3>3, <3>4
    <2>4. CASE UserInactive(c) \/ RevokeFamily(c)
      BY <2>2, <2>4, IamMoves, StepEffect DEF Moves
    <2>5. CASE Load(c)
      <3>1. PICK s \in Sessions : s = iam[c].session
        BY <2>5 DEF CallPart, ActsOnOwn, Acting, Load
      <3>2. Step(c, "flush", s, iam[c].image, rows[s])
        BY <2>5, <3>1 DEF Load
      <3>3. rows[s].current # c
        <4>1. Owns(s, rows[s].current) /\ iam[c].step # "done" /\ c # s /\ c # None
          BY <2>5, NamesAssumption DEF OwnInv, RowOwned, Load
        <4> QED
          BY <4>1 DEF Owns
      <3> QED
        BY <2>1, <2>5, <3>1, <3>2, <3>3, RowTypes DEF CallPart, ActsOnOwn, Acting, Writes, Load
    <2>6. CASE Flush(c)
      <3>1. PICK s \in Sessions : s = iam[c].session
        BY <2>6 DEF CallPart, ActsOnOwn, Acting, Flush
      <3> QED
        BY <2>1, <2>6, <3>1, RowTypes DEF CallPart, ActsOnOwn, Acting, Flush
    <2> QED
      BY <2>3, <2>4, <2>5, <2>6 DEF Iam
  <1>6. ASSUME NEW r \in Sessions PROVE RowOwned(r)'
    <2>1. CASE rows'[r] = rows[r]
      BY <1>2, <2>1, RowOwnedKept
    <2>2. CASE RevokeFamily(c) /\ rows'[r] # rows[r]
      <3>1. rows'[r].current = rows[r].current /\ rows'[r].previous = rows[r].previous
        BY <2>2, RevokeEffect
      <3> QED
        BY <1>2, <3>1, TokensKept DEF OwnInv, RowOwned, Owns
    <2>3. CASE Flush(c) /\ rows'[r] # rows[r]
      <3>1. /\ r = iam[c].session /\ Owns(r, call[c].token)
            /\ Owns(r, rows[r].current) /\ Owns(r, rows[r].previous)
            /\ call[c].kind # "logout" =>
                 rows'[r].current = c /\ rows'[r].previous \in {rows[r].previous, call[c].token}
            /\ call[c].kind = "logout" =>
                 /\ Owns(r, iam[c].image.current) /\ Owns(r, iam[c].image.previous)
                 /\ rows'[r].current \in {rows[r].current, iam[c].image.current}
                 /\ rows'[r].previous \in {rows[r].previous, iam[c].image.previous}
        BY <2>3, FlushEffect DEF OwnInv, RowOwned
      <3>2. iam'[c].step = "done" /\ iam'[c].session = r
        BY <2>3, <3>1, IamMoves, StepEffect DEF Moves
      <3>3. \A x : Owns(r, x) => \/ x \in {None, r}
                                 \/ x \in Calls /\ iam'[x].step = "done" /\ iam'[x].session = r
                                      /\ call'[x].kind # "logout"
        BY <1>2, TokensKept
      <3>4. PICK x, y : x = rows'[r].current /\ y = rows'[r].previous
        OBVIOUS
      <3>5. /\ \/ x \in {None, r}
               \/ x \in Calls /\ iam'[x].step = "done" /\ iam'[x].session = r /\ call'[x].kind # "logout"
            /\ \/ y \in {None, r}
               \/ y \in Calls /\ iam'[y].step = "done" /\ iam'[y].session = r /\ call'[y].kind # "logout"
        BY <1>2, <3>1, <3>2, <3>3, <3>4
      <3> QED
        BY <3>4, <3>5 DEF RowOwned, Owns
    <2> QED
      BY <1>2, <2>1, <2>2, <2>3
  <1>7. ASSUME NEW d \in Calls \ {c} PROVE CallPart(d)'
    BY <1>2, CallPartKept
  <1> QED
    BY <1>1, <1>4, <1>5, <1>6, <1>7 DEF OwnInv, CallPart

LEMMA OwnInvNext == OwnInv /\ [Next]_vars => OwnInv' /\ Progress
  <1>1. ASSUME OwnInv, UNCHANGED vars PROVE OwnInv' /\ Progress
    <2>1. GatewayInv' /\ Progress
      BY <1>1, GatewayInvNext DEF OwnInv, Progress, CallsProgress, vars
    <2> QED
      BY <1>1, <2>1, CallPartKept, RowOwnedKept DEF OwnInv, vars
  <1>2. ASSUME OwnInv, NEW s \in Sessions, Login(s) PROVE OwnInv' /\ Progress
    <2>1. /\ call' = call /\ iam' = iam /\ rows'[s].status = "active"
          /\ \A r \in Sessions \ {s} : rows'[r] = rows[r]
      BY <1>2 DEF Login, OwnInv, GatewayInv, Typed, TypeOK
    <2> QED
      BY <1>2, <2>1, OwnInvLogin DEF Progress, CallsProgress
  <1> QED
    BY <1>1, <1>2, OwnInvReceive, OwnInvGateway, OwnInvIam, IamProgress, GatewayProgress DEF Next

LEMMA OwnInvAlways == Spec => []OwnInv
  BY OwnInvInit, OwnInvNext, PTL DEF Spec

-----------------------------------------------------------------------------
(* Why sessions are revoked, and what becomes of tokens that were          *)
(* exchanged: unless someone logged out, an exchanged token never returns. *)

Exchanged(d) == iam[d].step = "done" /\ call[d].kind # "logout"

Excused(s) == LogoutAsked(s) \/ PresentedTwice(s)

PreviousUsed(s) ==
    rows[s].previous # None =>
        LogoutAsked(s) \/ \E d \in Calls : Exchanged(d) /\ call[d].token = rows[s].previous

Caused(s) == rows[s].status = "revoked" => Excused(s)

ReuseSeen(c) ==
    \A s \in Sessions : iam[c].step = "revoke" /\ iam[c].session = s => Excused(s)

Spent(d) ==
    \A s \in Sessions : Exchanged(d) /\ iam[d].session = s =>
        LogoutAsked(s) \/ rows[s].current # call[d].token

CauseInv ==
    /\ OwnInv
    /\ \A s \in Sessions : PreviousUsed(s) /\ Caused(s)
    /\ \A c \in Calls : ReuseSeen(c) /\ Spent(c)

LEMMA CauseInvInit == Init => CauseInv
  BY OwnInvInit DEF Init, CauseInv, PreviousUsed, Caused, ReuseSeen, Spent, Exchanged, NoCall, NoRequest, NoRow

LEMMA OwnsSession ==
  ASSUME NEW s \in Sessions, NEW t \in Tokens, Owns(s, t)
  PROVE  SessionOf(t) = s
  BY NamesAssumption DEF Owns, SessionOf, Tokens

LEMMA LogoutActs ==
  ASSUME OwnInv, NEW c \in Calls, call[c].kind = "logout", NEW s \in Sessions, Owns(s, call[c].token)
  PROVE  LogoutAsked(s)
  <1>1. call[c].token \in Tokens
    BY DEF OwnInv, CallPart, Begun
  <1> QED
    BY <1>1, OwnsSession DEF LogoutAsked

LEMMA SessionOfKept ==
  ASSUME OwnInv, Progress, NEW c \in Calls, call[c].pc # "idle"
  PROVE  call'[c].token = call[c].token /\ SessionOf(call[c].token)' = SessionOf(call[c].token)
  <1>1. call[c].token \in Tokens /\ Obtained(call[c].token) /\ call'[c].token = call[c].token
    BY DEF OwnInv, CallPart, Begun, Progress, CallsProgress
  <1>2. PICK t \in Tokens : t = call[c].token
    BY <1>1
  <1>3. t \in Calls => iam'[t] = iam[t]
    BY <1>1, <1>2, TokensKept
  <1> QED
    BY <1>1, <1>2, <1>3 DEF SessionOf, Tokens

LEMMA AskedKept ==
  ASSUME OwnInv, Progress, NEW s \in Sessions
  PROVE  /\ LogoutAsked(s) => LogoutAsked(s)'
         /\ PresentedTwice(s) => PresentedTwice(s)'
         /\ Excused(s) => Excused(s)'
  <1>1. LogoutAsked(s) => LogoutAsked(s)'
    <2> SUFFICES ASSUME NEW c \in Calls, call[c].kind = "logout", SessionOf(call[c].token) = s
                 PROVE  LogoutAsked(s)'
      BY DEF LogoutAsked
    <2>1. call[c].pc # "idle"
      BY DEF OwnInv, CallPart, Begun
    <2>2. call'[c].kind = "logout" /\ SessionOf(call[c].token)' = s
      BY <2>1, SessionOfKept DEF Progress, CallsProgress
    <2> QED
      BY <2>2 DEF LogoutAsked
  <1>2. PresentedTwice(s) => PresentedTwice(s)'
    <2> SUFFICES ASSUME NEW c \in Calls, NEW d \in Calls, c # d, call[c].token = call[d].token,
                        call[c].token # None, SessionOf(call[c].token) = s
                 PROVE  PresentedTwice(s)'
      BY DEF PresentedTwice
    <2>1. call[c].pc # "idle" /\ call[d].pc # "idle"
      BY DEF OwnInv, CallPart, Begun
    <2>2. call'[c].token = call'[d].token /\ call'[c].token # None /\ SessionOf(call[c].token)' = s
      BY <2>1, SessionOfKept
    <2> QED
      BY <2>2 DEF PresentedTwice
  <1> QED
    BY <1>1, <1>2 DEF Excused

(* Exchanges stay exchanges, with their token and session.                 *)
LEMMA ExchangedKept ==
  ASSUME OwnInv, Progress, NEW d \in Calls, iam[d].step = "done"
  PROVE  /\ iam'[d] = iam[d] /\ call'[d].token = call[d].token /\ call'[d].kind = call[d].kind
         /\ Exchanged(d) <=> Exchanged(d)'
  BY DEF OwnInv, CallPart, Begun, Progress, CallsProgress, Exchanged

LEMMA PreviousUsedKept ==
  ASSUME CauseInv, Progress, NEW s \in Sessions,
         rows'[s].previous = rows[s].previous, rows'[s].status \in {rows[s].status, "active"}
  PROVE  PreviousUsed(s)' /\ Caused(s)'
  <1>1. OwnInv /\ PreviousUsed(s) /\ Caused(s)
    BY DEF CauseInv
  <1>2. ASSUME NEW d \in Calls, Exchanged(d) PROVE Exchanged(d)' /\ call'[d].token = call[d].token
    BY <1>1, <1>2, ExchangedKept DEF Exchanged
  <1> QED
    BY <1>1, <1>2, AskedKept DEF PreviousUsed, Caused

LEMMA SpentKept ==
  ASSUME CauseInv, Progress, NEW d \in Calls, Exchanged(d)' => Exchanged(d),
         \A s \in Sessions : Exchanged(d) /\ iam[d].session = s =>
             rows'[s].current = rows[s].current \/ rows'[s].current # call[d].token \/ LogoutAsked(s)
  PROVE  Spent(d)'
  <1>1. OwnInv /\ Spent(d)
    BY DEF CauseInv
  <1>2. Exchanged(d) => iam'[d] = iam[d] /\ call'[d].token = call[d].token
    BY <1>1, ExchangedKept DEF Exchanged
  <1>3. \A s \in Sessions : LogoutAsked(s) => LogoutAsked(s)'
    BY <1>1, AskedKept
  <1> QED
    BY <1>1, <1>2, <1>3 DEF Spent

LEMMA ReuseSeenKept ==
  ASSUME CauseInv, Progress, NEW c \in Calls, iam'[c].step = "revoke" => iam'[c] = iam[c]
  PROVE  ReuseSeen(c)'
  <1>1. OwnInv /\ ReuseSeen(c)
    BY DEF CauseInv
  <1>2. \A s \in Sessions : Excused(s) => Excused(s)'
    BY <1>1, AskedKept
  <1> QED
    BY <1>1, <1>2 DEF ReuseSeen

(* Steps that leave the rows alone and complete no exchange.               *)
LEMMA CauseInvQuiet ==
  ASSUME CauseInv, OwnInv', Progress, rows' = rows, NEW c \in Calls,
         \A d \in Calls \ {c} : iam'[d] = iam[d], ReuseSeen(c)', Exchanged(c)' => Exchanged(c)
  PROVE  CauseInv'
  <1>1. \A s \in Sessions : PreviousUsed(s)' /\ Caused(s)'
    BY PreviousUsedKept
  <1>2. ASSUME NEW d \in Calls PROVE Spent(d)'
    <2>1. Exchanged(d)' => Exchanged(d)
      BY ExchangedKept DEF CauseInv, Exchanged
    <2> QED
      BY <2>1, SpentKept
  <1>3. \A d \in Calls \ {c} : ReuseSeen(d)'
    BY ReuseSeenKept
  <1> QED
    BY <1>1, <1>2, <1>3 DEF CauseInv

LEMMA CauseInvReceive == ASSUME CauseInv, NEW c \in Calls, Receive(c) PROVE CauseInv'
  <1> OwnInv /\ OwnInv' /\ TypeOK
    BY OwnInvReceive DEF CauseInv, OwnInv, GatewayInv, Typed
  <1>1. Progress /\ rows' = rows /\ \A d \in Calls \ {c} : iam'[d] = iam[d]
    BY GatewayProgress
  <1>2. iam'[c].step \in {"none", "find"}
    <2>1. call[c].pc = "idle"
      BY DEF Receive, Lead, Follow, Ask, Accept
    <2>2. iam[c].step = "none"
      BY <2>1 DEF OwnInv, CallPart, Begun
    <2> QED
      BY <2>2, AskIamEffect DEF Receive, Lead, Follow, Ask
  <1> QED
    BY <1>1, <1>2, CauseInvQuiet DEF ReuseSeen, Exchanged

LEMMA CauseInvGateway == ASSUME CauseInv, NEW c \in Calls, Gateway(c) PROVE CauseInv'
  <1> OwnInv /\ OwnInv'
    BY OwnInvGateway DEF CauseInv
  <1>1. Progress /\ rows' = rows
    BY GatewayProgress
  <1>2. iam' = iam
    BY DEF Gateway, Publish, Raise, Pop, Observe, TimeOut, Reply, AtGateway
  <1>3. Exchanged(c)' => Exchanged(c)
    BY <1>1, <1>2, ExchangedKept DEF Exchanged
  <1> QED
    BY <1>1, <1>2, <1>3, CauseInvQuiet, ReuseSeenKept

LEMMA CauseInvFind ==
  ASSUME CauseInv, NEW c \in Calls,
         FindToRefresh(c) \/ FindToLogOut(c) \/ UserInactive(c) \/ Load(c)
  PROVE  CauseInv'
  <1> OwnInv /\ OwnInv' /\ Typed /\ TypeOK /\ Iam(c)
    BY OwnInvIam DEF CauseInv, OwnInv, GatewayInv, Typed, Iam
  <1>1. /\ Progress /\ call' = call /\ \A d \in Calls \ {c} : iam'[d] = iam[d]
        /\ call[c].pc # "idle" /\ rows' = rows
    BY IamProgress DEF FindToRefresh, FindToLogOut, UserInactive, Load
  <1>2. Exchanged(c)' => Exchanged(c)
    <2>1. iam'[c].step = "done" => call[c].kind = "logout"
      BY IamMoves, StepEffect DEF Moves, FindToLogOut
    <2> QED
      BY <2>1, <1>1 DEF Exchanged
  <1>3. ReuseSeen(c)'
    <2> SUFFICES ASSUME iam'[c].step = "revoke" PROVE ReuseSeen(c)'
      BY DEF ReuseSeen
    <2>1. PICK s \in Usable(call[c].token) :
             Reused(s, call[c].token) /\ Moves(c, "revoke", s, NoRow, NoRow)
      <3>1. ~Moves(c, "refused", iam[c].session, NoRow, NoRow) /\ ~Moves(c, "done", None, NoRow, NoRow)
        BY MoveEffect
      <3>2. \A s, image : ~Moves(c, "save", s, image, NoRow)
        BY MoveEffect
      <3>3. ~Moves(c, "flush", iam[c].session, iam[c].image, rows[iam[c].session])
        BY MoveEffect
      <3>4. FindToRefresh(c)
        BY <3>1, <3>2, <3>3, IamMoves
      <3> QED
        BY <3>1, <3>2, <3>4, IamMoves
    <2>2. call[c].token \in Tokens
      BY <1>1 DEF OwnInv, CallPart, Begun
    <2>3. s \in Sessions /\ Owns(s, call[c].token) /\ rows[s].previous = call[c].token
      BY <2>1, <2>2, FoundOwns DEF Reused
    <2>4. Excused(s)
      <3>1. CASE LogoutAsked(s)
        BY <3>1 DEF Excused
      <3>2. CASE ~LogoutAsked(s)
        <4>1. PICK d \in Calls : Exchanged(d) /\ call[d].token = call[c].token
          BY <3>2, <2>2, <2>3, NamesAssumption DEF CauseInv, PreviousUsed, Tokens
        <4>2. c # d
          BY <4>1, IamProgress DEF Exchanged
        <4>3. call[c].token # None /\ SessionOf(call[c].token) = s
          BY <2>2, <2>3, OwnsSession, NamesAssumption DEF Tokens
        <4> QED
          BY <4>1, <4>2, <4>3 DEF PresentedTwice, Excused
      <3> QED
        BY <3>1, <3>2
    <2>5. iam'[c].session = s
      BY <2>1, StepEffect DEF Moves
    <2> QED
      BY <1>1, <2>3, <2>4, <2>5, AskedKept DEF ReuseSeen
  <1> QED
    BY <1>1, <1>2, <1>3, CauseInvQuiet

LEMMA CauseInvRevoke == ASSUME CauseInv, NEW c \in Calls, RevokeFamily(c) PROVE CauseInv'
  <1> OwnInv /\ OwnInv' /\ Typed /\ Iam(c)
    BY OwnInvIam DEF CauseInv, OwnInv, GatewayInv, Iam
  <1>1. Progress /\ call' = call /\ \A d \in Calls \ {c} : iam'[d] = iam[d]
    BY IamProgress
  <1>2. PICK s \in Sessions :
           /\ s = iam[c].session
           /\ \A r \in Sessions \ {s} : rows'[r] = rows[r]
           /\ rows'[s].current = rows[s].current /\ rows'[s].previous = rows[s].previous
           /\ rows'[s].status \in {rows[s].status, "revoked"}
    BY RevokeEffect
  <1>3. iam'[c].step = "refused"
    BY IamMoves, StepEffect DEF Moves, Typed
  <1>4. Excused(s)'
    BY <1>1, <1>2, AskedKept DEF CauseInv, ReuseSeen, RevokeFamily
  <1>5. ASSUME NEW r \in Sessions PROVE PreviousUsed(r)' /\ Caused(r)'
    <2>1. CASE r # s
      BY <2>1, <1>1, <1>2, PreviousUsedKept
    <2>2. CASE r = s
      <3>1. PreviousUsed(s)
        BY DEF CauseInv
      <3>2. \A d \in Calls : Exchanged(d) => Exchanged(d)' /\ call'[d].token = call[d].token
        BY <1>1, ExchangedKept DEF Exchanged
      <3>3. LogoutAsked(s) => LogoutAsked(s)'
        BY <1>1, AskedKept
      <3> QED
        BY <2>2, <1>2, <1>4, <3>1, <3>2, <3>3 DEF PreviousUsed, Caused
    <2> QED
      BY <2>1, <2>2
  <1>6. ASSUME NEW d \in Calls PROVE Spent(d)' /\ ReuseSeen(d)'
    <2>1. Exchanged(d)' => Exchanged(d)
      BY <1>1, <1>3 DEF Exchanged
    <2>2. \A r \in Sessions : rows'[r].current = rows[r].current
      BY <1>2
    <2>3. Spent(d)'
      BY <1>1, <2>1, <2>2, SpentKept
    <2>4. iam'[d].step = "revoke" => iam'[d] = iam[d]
      BY <1>1, <1>3
    <2> QED
      BY <1>1, <2>3, <2>4, ReuseSeenKept
  <1> QED
    BY <1>5, <1>6 DEF CauseInv

LEMMA CauseInvFlush == ASSUME CauseInv, NEW c \in Calls, Flush(c) PROVE CauseInv'
  <1> OwnInv /\ OwnInv' /\ Typed /\ Iam(c)
    BY OwnInvIam DEF CauseInv, OwnInv, GatewayInv, Iam
  <1>1. Progress /\ call' = call /\ (\A d \in Calls \ {c} : iam'[d] = iam[d]) /\ iam[c].step = "flush"
    BY IamProgress DEF Flush
  <1>2. PICK s \in Sessions :
           /\ s = iam[c].session
           /\ \A r \in Sessions \ {s} : rows'[r] = rows[r]
           /\ Owns(s, call[c].token)
           /\ call[c].kind # "logout" =>
                /\ rows'[s].current = c /\ rows'[s].previous \in {rows[s].previous, call[c].token}
                /\ rows'[s].status \in {rows[s].status, "active"}
    BY FlushEffect
  <1>3. iam'[c].step = "done" /\ iam'[c].session = s
    BY <1>2, IamMoves, StepEffect DEF Moves, Typed
  <1>4. call[c].kind = "logout" => LogoutAsked(s) /\ LogoutAsked(s)'
    BY <1>1, <1>2, LogoutActs, AskedKept
  <1>5. ASSUME NEW r \in Sessions PROVE PreviousUsed(r)' /\ Caused(r)'
    <2>1. CASE r # s \/ (rows'[r].previous = rows[r].previous /\ call[c].kind # "logout")
      BY <2>1, <1>1, <1>2, PreviousUsedKept
    <2>2. CASE r = s /\ call[c].kind = "logout"
      BY <2>2, <1>4 DEF PreviousUsed, Caused, Excused
    <2>3. CASE r = s /\ call[c].kind # "logout" /\ rows'[r].previous # rows[r].previous
      <3>1. rows'[r].previous = call'[c].token /\ Exchanged(c)'
        BY <2>3, <1>1, <1>2, <1>3 DEF Exchanged
      <3>2. PreviousUsed(r)'
        BY <3>1 DEF PreviousUsed
      <3>3. Caused(r)'
        <4>1. Caused(r) /\ rows'[r].status \in {rows[r].status, "active"}
          BY <2>3, <1>2 DEF CauseInv
        <4> QED
          BY <4>1, <1>1, AskedKept DEF Caused
      <3> QED
        BY <3>2, <3>3
    <2> QED
      BY <2>1, <2>2, <2>3
  <1>6. ASSUME NEW d \in Calls PROVE Spent(d)'
    <2>1. call[d].token # c
      <3>1. call[d].token \in Calls => iam[call[d].token].step = "done"
        BY NamesAssumption DEF OwnInv, CallPart, Begun, Obtained
      <3> QED
        BY <3>1, <1>1
    <2>2. CASE d = c
      <3>1. ASSUME NEW r \in Sessions, Exchanged(c)', iam'[c].session = r
            PROVE  LogoutAsked(r)' \/ rows'[r].current # call'[c].token
        BY <3>1, <2>1, <2>2, <1>1, <1>2, <1>3 DEF Exchanged
      <3> QED
        BY <2>2, <3>1 DEF Spent
    <2>3. CASE d # c
      <3>1. Exchanged(d)' => Exchanged(d)
        BY <2>3, <1>1 DEF Exchanged
      <3>2. \A r \in Sessions : \/ rows'[r].current = rows[r].current
                                \/ rows'[r].current # call[d].token \/ LogoutAsked(r)
        BY <2>1, <1>2, <1>4
      <3> QED
        BY <3>1, <3>2, <1>1, SpentKept
    <2> QED
      BY <2>2, <2>3
  <1>7. ASSUME NEW d \in Calls PROVE ReuseSeen(d)'
    <2>1. iam'[d].step = "revoke" => iam'[d] = iam[d]
      BY <1>1, <1>3
    <2> QED
      BY <1>1, <2>1, ReuseSeenKept
  <1> QED
    BY <1>5, <1>6, <1>7 DEF CauseInv

LEMMA CauseInvLogin == ASSUME CauseInv, NEW s \in Sessions, Login(s) PROVE CauseInv'
  <1> OwnInv /\ OwnInv' /\ Progress /\ TypeOK
    BY OwnInvLogin, OwnInvNext DEF CauseInv, OwnInv, GatewayInv, Typed, Next
  <1>1. /\ rows'[s].previous = None /\ rows'[s].status = "active" /\ rows[s].status = "absent"
        /\ \A r \in Sessions \ {s} : rows'[r] = rows[r]
        /\ call' = call /\ iam' = iam
    BY DEF Login, TypeOK
  <1>2. ASSUME NEW r \in Sessions PROVE PreviousUsed(r)' /\ Caused(r)'
    <2>1. CASE r = s
      BY <2>1, <1>1 DEF PreviousUsed, Caused
    <2>2. CASE r # s
      BY <2>2, <1>1, PreviousUsedKept
    <2> QED
      BY <2>1, <2>2
  <1>3. ASSUME NEW d \in Calls PROVE Spent(d)' /\ ReuseSeen(d)'
    <2>1. Exchanged(d) => iam[d].session # s
      BY <1>1 DEF OwnInv, CallPart, ActsOnOwn, Acting, Exchanged
    <2>2. Exchanged(d)' => Exchanged(d)
      BY <1>1 DEF Exchanged
    <2> QED
      BY <2>1, <2>2, <1>1, SpentKept, ReuseSeenKept
  <1> QED
    BY <1>2, <1>3 DEF CauseInv

LEMMA CauseInvNext == CauseInv /\ [Next]_vars => CauseInv'
  <1>1. ASSUME CauseInv, UNCHANGED vars PROVE CauseInv'
    <2>1. OwnInv' /\ Progress
      BY <1>1, OwnInvNext DEF CauseInv
    <2>2. rows' = rows /\ iam' = iam /\ call' = call
      BY <1>1 DEF vars
    <2>3. \A s \in Sessions : PreviousUsed(s)' /\ Caused(s)'
      BY <1>1, <2>1, <2>2, PreviousUsedKept
    <2>4. ASSUME NEW d \in Calls PROVE Spent(d)' /\ ReuseSeen(d)'
      BY <1>1, <2>1, <2>2, SpentKept, ReuseSeenKept DEF Exchanged
    <2> QED
      BY <2>1, <2>3, <2>4 DEF CauseInv
  <1> QED
    BY <1>1, CauseInvReceive, CauseInvGateway, CauseInvFind, CauseInvRevoke, CauseInvFlush, CauseInvLogin
       DEF Next, Iam

LEMMA CauseInvAlways == Spec => []CauseInv
  BY CauseInvInit, CauseInvNext, PTL DEF Spec

(* Sessions are revoked for a cause.                                       *)
THEOREM RevokedForCauseCorrect == Spec => []RevokedForCause
  <1>1. CauseInv => RevokedForCause
    BY DEF CauseInv, Caused, Excused, RevokedForCause
  <1> QED
    BY <1>1, CauseInvAlways, PTL

-----------------------------------------------------------------------------
(* Once a flight of a process has obtained a pair for a token, no other    *)
(* flight of the process is about to: it would have to find the token      *)
(* current, and the token is spent.                                        *)

Rivals(c, d) ==
    /\ c # d /\ call[c].kind = "proxy" /\ call[d].kind = "proxy"
    /\ call[c].worker = call[d].worker /\ call[c].token = call[d].token
    /\ call[d].answer = d

AboutTo(c) == Leading(c) /\ iam[c].step \in {"save", "flush", "done"}

NoRival(c, d) ==
    \A s \in Sessions : Rivals(c, d) /\ iam[d].session = s =>
        LogoutAsked(s) \/ (call[c].answer # c /\ ~AboutTo(c))

NotCoalesced(c) == call[c].pc = "ask" => call[c].kind # "proxy"

OnceInv ==
    /\ CauseInv
    /\ \A c \in Calls : NotCoalesced(c)
    /\ \A c, d \in Calls : NoRival(c, d)

LEMMA OnceInvInit == Init => OnceInv
  BY CauseInvInit DEF Init, OnceInv, NotCoalesced, NoRival, Rivals, NoCall

(* Whoever is answered with its own pair has exchanged its token.          *)
LEMMA AnsweredExchanged ==
  ASSUME OwnInv, NEW d \in Calls, call[d].answer = d
  PROVE  Exchanged(d) /\ iam[d].session \in Sessions /\ Owns(iam[d].session, call[d].token)
  <1>1. d # None /\ Known(d) /\ ActsOnOwn(d)
    BY NamesAssumption DEF OwnInv, CallPart
  <1>2. Exchanged(d)
    BY <1>1 DEF Known, Obtained, Exchanged
  <1> QED
    BY <1>1, <1>2 DEF ActsOnOwn, Acting, Exchanged

(* If a step makes neither an answer nor a leader dangerous, no rival comes*)
(* of it.                                                                  *)
LEMMA NoRivalKept ==
  ASSUME OnceInv, Progress, NEW c \in Calls, NEW d \in Calls,
         Rivals(c, d)' => Rivals(c, d),
         Rivals(c, d) /\ call'[c].answer = c => call[c].answer = c \/ AboutTo(c),
         Rivals(c, d) /\ AboutTo(c)' => AboutTo(c) \/ LogoutAsked(iam[d].session)
  PROVE  NoRival(c, d)'
  <1>1. OwnInv /\ NoRival(c, d)
    BY DEF OnceInv, CauseInv
  <1>2. Rivals(c, d) => iam'[d] = iam[d]
    BY <1>1, AnsweredExchanged, ExchangedKept DEF Rivals, Exchanged
  <1>3. \A s \in Sessions : LogoutAsked(s) => LogoutAsked(s)'
    BY <1>1, AskedKept
  <1> QED
    BY <1>1, <1>2, <1>3 DEF NoRival

(* A step that leaves the calls alone, and starts no exchange but of a     *)
(* token found current.                                                    *)
LEMMA OnceInvCalm ==
  ASSUME OnceInv, CauseInv', Progress, call' = call,
         \A c, d \in Calls : Rivals(c, d) /\ AboutTo(c)' => AboutTo(c) \/ LogoutAsked(iam[d].session)
  PROVE  OnceInv'
  <1>1. \A c \in Calls : NotCoalesced(c)'
    BY DEF OnceInv, NotCoalesced
  <1>2. ASSUME NEW c \in Calls, NEW d \in Calls PROVE NoRival(c, d)'
    <2>1. Rivals(c, d)' => Rivals(c, d)
      BY DEF Rivals
    <2> QED
      BY <2>1, NoRivalKept
  <1> QED
    BY <1>1, <1>2 DEF OnceInv

LEMMA OnceInvFind == ASSUME OnceInv, NEW c \in Calls, FindToRefresh(c) PROVE OnceInv'
  <1> CauseInv /\ OwnInv /\ Typed /\ Iam(c)
    BY DEF OnceInv, CauseInv, OwnInv, GatewayInv, Iam
  <1>1. /\ Progress /\ call' = call /\ \A e \in Calls \ {c} : iam'[e] = iam[e]
    BY IamProgress
  <1>2. CauseInv'
    BY CauseInvFind
  <1>3. ASSUME NEW e \in Calls, NEW d \in Calls, Rivals(e, d), AboutTo(e)'
        PROVE  AboutTo(e) \/ LogoutAsked(iam[d].session)
    <2>1. CASE e # c
      BY <2>1, <1>1, <1>3 DEF AboutTo, Leading
    <2>2. CASE e = c /\ call[c].kind = "proxy"
      <3>1. iam'[c].step \in {"save", "flush", "done"} /\ call[c].token \in Tokens /\ Leading(c)
        BY <1>1, <1>3, <2>2 DEF AboutTo, Leading, OwnInv, CallPart, Begun
      <3>2. PICK s \in Usable(call[c].token) : ~Reused(s, call[c].token)
        BY <3>1, IamMoves, MoveEffect
      <3>3. s \in Sessions /\ Owns(s, call[c].token) /\ rows[s].current = call[c].token
        BY <3>1, <3>2, FoundOwns
      <3>4. Exchanged(d) /\ iam[d].session \in Sessions /\ Owns(iam[d].session, call[c].token)
              /\ call[d].token = call[c].token
        BY <1>3, <2>2, AnsweredExchanged DEF Rivals
      <3>5. iam[d].session = s
        BY <3>1, <3>3, <3>4, OwnsSession
      <3> QED
        BY <3>3, <3>4, <3>5 DEF CauseInv, Spent
    <2> QED
      BY <1>3, <2>1, <2>2 DEF Rivals
  <1> QED
    BY <1>1, <1>2, <1>3, OnceInvCalm

LEMMA OnceInvIam == ASSUME OnceInv, NEW c \in Calls, Iam(c) PROVE OnceInv'
  <1> CauseInv /\ OwnInv /\ Typed
    BY DEF OnceInv, CauseInv, OwnInv, GatewayInv
  <1>1. /\ Progress /\ call' = call /\ \A e \in Calls \ {c} : iam'[e] = iam[e]
    BY IamProgress
  <1>2. CauseInv'
    BY CauseInvFind, CauseInvRevoke, CauseInvFlush DEF Iam
  <1>3. CASE FindToRefresh(c)
    BY <1>3, OnceInvFind
  <1>4. CASE FindToLogOut(c)
    <2>1. \A d \in Calls : ~Rivals(c, d)
      BY <1>4 DEF FindToLogOut, Rivals
    <2> QED
      BY <2>1, <1>1, <1>2, OnceInvCalm DEF AboutTo, Leading
  <1>5. CASE UserInactive(c) \/ RevokeFamily(c) \/ Load(c) \/ Flush(c)
    <2>1. iam'[c].step = "refused" \/ iam[c].step \in {"save", "flush"}
      BY <1>5, IamMoves, MoveEffect DEF Load, Flush
    <2> QED
      BY <2>1, <1>1, <1>2, OnceInvCalm DEF AboutTo, Leading
  <1> QED
    BY <1>3, <1>4, <1>5 DEF Iam

LEMMA OnceInvReceive == ASSUME OnceInv, NEW c \in Calls, Receive(c) PROVE OnceInv'
  <1> CauseInv /\ OwnInv /\ TypeOK
    BY DEF OnceInv, CauseInv, OwnInv, GatewayInv, Typed
  <1>1. /\ Progress
        /\ \A d \in Calls \ {c} : call'[d] = call[d] /\ iam'[d] = iam[d]
    BY GatewayProgress
  <1>2. CauseInv'
    BY CauseInvReceive
  <1>3. call'[c].answer = None /\ NotCoalesced(c)' /\ iam'[c].step \in {"none", "find"}
    <2>1. call[c].pc = "idle"
      BY DEF Receive, Lead, Follow, Ask, Accept
    <2>2. iam[c].step = "none"
      BY <2>1 DEF OwnInv, CallPart, Begun
    <2>3. iam'[c].step \in {"none", "find"}
      BY <2>2, AskIamEffect DEF Receive, Lead, Follow, Ask
    <2>4. call'[c].answer = None /\ (call'[c].pc = "ask" => call'[c].kind # "proxy")
      BY DEF Receive, Lead, Follow, Ask, Accept, TypeOK
    <2> QED
      BY <2>3, <2>4 DEF NotCoalesced
  <1>4. ASSUME NEW d \in Calls PROVE NotCoalesced(d)'
    <2>1. CASE d = c
      BY <2>1, <1>3
    <2>2. CASE d # c
      BY <2>2, <1>1 DEF OnceInv, NotCoalesced
    <2> QED
      BY <2>1, <2>2
  <1>5. ASSUME NEW e \in Calls, NEW d \in Calls PROVE NoRival(e, d)'
    <2>1. CASE d = c
      BY <2>1, <1>3, NamesAssumption DEF NoRival, Rivals
    <2>2. CASE e = c /\ d # c
      BY <2>2, <1>3, NamesAssumption DEF NoRival, AboutTo
    <2>3. CASE e # c /\ d # c
      BY <2>3, <1>1, NoRivalKept DEF Rivals, AboutTo, Leading
    <2> QED
      BY <2>1, <2>2, <2>3
  <1> QED
    BY <1>2, <1>4, <1>5 DEF OnceInv

LEMMA OnceInvLeave == ASSUME OnceInv, NEW c \in Calls, Publish(c) \/ Raise(c) PROVE OnceInv'
  <1> CauseInv /\ OwnInv /\ TypeOK /\ Gateway(c)
    BY DEF OnceInv, CauseInv, OwnInv, GatewayInv, Typed, Gateway
  <1>1. Progress /\ CauseInv' /\ iam' = iam
    BY GatewayProgress, CauseInvGateway DEF Publish, Raise, AtGateway
  <1>2. /\ call[c].pc = "lead" /\ call'[c].pc = "leave" /\ call'[c].answer = call[c].answer
        /\ call'[c].kind = call[c].kind /\ call'[c].worker = call[c].worker
        /\ call'[c].token = call[c].token
        /\ \A d \in Calls \ {c} : call'[d] = call[d]
    BY LeaveEffect DEF Publish, Raise
  <1>3. \A d \in Calls : NotCoalesced(d)'
    BY <1>2 DEF OnceInv, NotCoalesced
  <1>4. ASSUME NEW e \in Calls, NEW d \in Calls PROVE NoRival(e, d)'
    <2>1. \A x \in Calls : /\ call'[x].answer = call[x].answer /\ call'[x].kind = call[x].kind
                           /\ call'[x].worker = call[x].worker /\ call'[x].token = call[x].token
                           /\ call'[x].pc \in {"lead", "leave"} => call[x].pc \in {"lead", "leave"}
      BY <1>2
    <2> QED
      BY <2>1, <1>1, NoRivalKept DEF Rivals, AboutTo, Leading
  <1> QED
    BY <1>1, <1>3, <1>4 DEF OnceInv

(* Every way a call ends: with its own pair only as a leader or uncoalesced*)
LEMMA OnceInvEnds ==
  ASSUME OnceInv, CauseInv', Progress, iam' = iam, NEW c \in Calls, NEW a, Ends(c, a),
         a = c => \/ call[c].kind # "proxy"
                  \/ Leading(c) /\ iam[c].step = "done"
  PROVE  OnceInv'
  <1> CauseInv /\ OwnInv /\ GatewayInv /\ TypeOK
    BY DEF OnceInv, CauseInv, OwnInv, GatewayInv, Typed
  <1>1. /\ call'[c].pc = "done" /\ call'[c].answer = a
        /\ call'[c].kind = call[c].kind /\ call'[c].worker = call[c].worker
        /\ call'[c].token = call[c].token
        /\ \A d \in Calls \ {c} : call'[d] = call[d]
    BY FinishEffect DEF Ends
  <1>2. \A d \in Calls : NotCoalesced(d)'
    BY <1>1 DEF OnceInv, NotCoalesced
  <1>3. ASSUME NEW e \in Calls, NEW d \in Calls PROVE NoRival(e, d)'
    <2>1. CASE d # c
      <3>1. Rivals(e, d)' => Rivals(e, d)
        BY <2>1, <1>1 DEF Rivals
      <3>2. Rivals(e, d) /\ call'[e].answer = e => call[e].answer = e \/ AboutTo(e)
        BY <1>1 DEF Rivals, AboutTo
      <3>3. AboutTo(e)' => AboutTo(e)
        BY <1>1 DEF AboutTo, Leading
      <3> QED
        BY <3>1, <3>2, <3>3, NoRivalKept
    <2>2. CASE d = c /\ (a # c \/ call[c].kind # "proxy")
      BY <2>2, <1>1 DEF NoRival, Rivals
    <2>3. CASE d = c /\ Leading(c) /\ iam[c].step = "done" /\ e # c
      <3> SUFFICES ASSUME NEW s \in Sessions, Rivals(e, c)', iam'[c].session = s, ~LogoutAsked(s)'
                   PROVE  call'[e].answer # e /\ ~AboutTo(e)'
        BY <2>3 DEF NoRival
      <3>1. /\ call[e].kind = "proxy" /\ call[c].kind = "proxy"
            /\ call[e].worker = call[c].worker /\ call[e].token = call[c].token
            /\ call'[e] = call[e] /\ ~LogoutAsked(s)
        BY <2>3, <1>1, AskedKept DEF Rivals
      <3>2. call[e].answer # e
        <4> SUFFICES ASSUME call[e].answer = e PROVE FALSE
          OBVIOUS
        <4>1. Rivals(c, e) /\ AboutTo(c)
          BY <2>3, <3>1 DEF Rivals, AboutTo
        <4>2. Exchanged(e) /\ iam[e].session \in Sessions /\ Owns(iam[e].session, call[c].token)
          BY <3>1, AnsweredExchanged
        <4>3. Owns(s, call[c].token) /\ call[c].token \in Tokens
          BY <2>3, <3>1 DEF OwnInv, CallPart, ActsOnOwn, Acting, GatewayInv, GatewayPart, Leads
        <4>4. iam[e].session = s
          BY <4>2, <4>3, OwnsSession
        <4> QED
          BY <3>1, <4>1, <4>4 DEF OnceInv, NoRival
      <3>3. ~Leading(e)
        BY <2>3, <3>1 DEF GatewayInv, GatewayPart, Leads
      <3> QED
        BY <3>1, <3>2, <3>3 DEF AboutTo, Leading
    <2>4. CASE e = c /\ d = c
      BY <2>4 DEF NoRival, Rivals
    <2> QED
      BY <2>1, <2>2, <2>3, <2>4
  <1> QED
    BY <1>2, <1>3 DEF OnceInv

LEMMA OnceInvAnswer ==
  ASSUME OnceInv, NEW c \in Calls, Pop(c) \/ Observe(c) \/ TimeOut(c) \/ Reply(c)
  PROVE  OnceInv'
  <1> CauseInv /\ OwnInv /\ GatewayInv /\ Typed /\ Gateway(c)
    BY DEF OnceInv, CauseInv, OwnInv, GatewayInv, Gateway
  <1>1. Progress /\ CauseInv' /\ iam' = iam
    BY GatewayProgress, CauseInvGateway DEF Pop, Observe, TimeOut, Reply, AtGateway
  <1>2. CASE Pop(c)
    <2>1. Ends(c, flight[c].result) /\ Leading(c)
      BY <1>2, GatewayEnds DEF Pop, Leading
    <2>2. flight[c].result = c => iam[c].step = "done"
      BY NamesAssumption DEF OwnInv, CallPart, Known, Obtained
    <2> QED
      BY <2>1, <2>2, <1>1, OnceInvEnds
  <1>3. CASE Observe(c)
    <2>1. call[c].flight \in Calls /\ call[c].flight # c
      BY <1>3 DEF Typed, Placed, GatewayInv, GatewayPart, Waits, Observe
    <2>2. flight[call[c].flight].result # c
      BY <2>1, NamesAssumption DEF GatewayInv, GatewayPart, Delivers
    <2> QED
      BY <1>1, <1>3, <2>2, GatewayEnds, OnceInvEnds
  <1>4. CASE TimeOut(c) \/ Reply(c)
    <2>1. Reply(c) => call[c].kind # "proxy"
      BY DEF OnceInv, NotCoalesced, Reply
    <2>2. PICK a : Ends(c, a) /\ (Reply(c) \/ a = None)
      BY <1>4, GatewayEnds
    <2> QED
      BY <1>1, <2>1, <2>2, OnceInvEnds, NamesAssumption
  <1> QED
    BY <1>2, <1>3, <1>4

LEMMA OnceInvNext == OnceInv /\ [Next]_vars => OnceInv'
  <1>1. ASSUME OnceInv, UNCHANGED vars \/ \E s \in Sessions : Login(s) PROVE OnceInv'
    <2>1. CauseInv' /\ Progress
      BY <1>1, CauseInvNext, OwnInvNext DEF OnceInv, CauseInv, Next
    <2>2. call' = call /\ iam' = iam
      BY <1>1 DEF vars, Login
    <2> QED
      BY <1>1, <2>1, <2>2, OnceInvCalm DEF AboutTo, Leading
  <1> QED
    BY <1>1, OnceInvReceive, OnceInvIam, OnceInvLeave, OnceInvAnswer DEF Next, Gateway

LEMMA OnceInvAlways == Spec => []OnceInv
  BY OnceInvInit, OnceInvNext, PTL DEF Spec

(* While nobody logs out of a session, the flights of one process exchange *)
(* a refresh token of it at most once.                                     *)
THEOREM ExchangedOnceCorrect == Spec => []ExchangedOnce
  <1>1. OnceInv => ExchangedOnce
    <2> SUFFICES ASSUME OnceInv, NEW c \in Calls, NEW d \in Calls, c # d,
                        call[c].kind = "proxy", call[d].kind = "proxy",
                        call[c].answer = c, call[d].answer = d,
                        call[c].worker = call[d].worker, call[c].token = call[d].token
                 PROVE  LogoutAsked(SessionOf(call[c].token))
      BY DEF ExchangedOnce
    <2>1. OwnInv /\ Rivals(c, d) /\ NoRival(c, d)
      BY DEF OnceInv, CauseInv, Rivals
    <2>2. iam[d].session \in Sessions /\ Owns(iam[d].session, call[c].token)
      BY <2>1, AnsweredExchanged
    <2>3. SessionOf(call[c].token) = iam[d].session
      <3>1. call[c].token \in Tokens
        BY <2>1, NamesAssumption DEF OwnInv, CallPart, Begun
      <3> QED
        BY <2>2, <3>1, OwnsSession
    <2> QED
      BY <2>1, <2>2, <2>3 DEF NoRival
  <1> QED
    BY <1>1, OnceInvAlways, PTL

-----------------------------------------------------------------------------
(* The dashboard *)

HIDE NamesAssumption

View == [pc: {"idle", "sent", "keyed", "collect", "leave", "wait", "meta", "store", "reply",
              "answered", "failed", "done"},
         actor: Actors \cup {Nothing}, requested: Scopes, effective: Scopes,
         flight: Views \cup {Nothing}, open: SUBSET Domains, shown: SUBSET Domains,
         degraded: SUBSET (Domains \cup {"gateway"}), result: Views \cup {Nothing},
         answer: Results \cup {Nothing}]

DashboardTypeOK ==
    /\ view \in [Views -> View]
    /\ inFlight \in [Keys -> Views \cup {Nothing}]
    /\ results \in [Views -> Results \cup {Nothing}]
    /\ cache \in [Keys -> Views \cup {Nothing}]
    /\ tab \in [Actors -> [scope: Scopes, data: Results \cup {Nothing}]]

(* The scope of the request is decided, and will not be decided again.     *)
Keyed(v) == view[v].pc \notin {"idle", "sent"} /\ view[v].actor \in Actors

Of(x, k) == x.actor = k[1] /\ x.scope = k[2] /\ x.shown \cap x.degraded = {}

(* There is a result, collected for this user in this scope.               *)
DeliversTo(v, k) == results[v] # Nothing /\ Of(results[v], k)

(* What a request has made of its key so far.                              *)
Collected(v) ==
    /\ view[v].pc \in {"idle", "sent", "keyed"} => view[v].shown = {} /\ view[v].degraded = {}
    /\ view[v].pc = "collect" =>
         view[v].shown \cap view[v].degraded = {} /\ view[v].open \cap (view[v].shown \cup view[v].degraded) = {}

(* What it waits for, will hand on, or was told.                           *)
Served(v) ==
    /\ view[v].pc = "wait" =>
         view[v].flight \in Views /\ Keyed(view[v].flight) /\ Key(view[v].flight) = Key(v)
    /\ view[v].pc \in {"leave", "meta", "store", "reply"} =>
         view[v].result \in Views /\ DeliversTo(view[v].result, Key(v))
    /\ view[v].pc = "answered" => view[v].answer # Nothing
    /\ view[v].answer # Nothing => Of(view[v].answer, Key(v))

ViewOK(v) ==
    /\ view[v].pc # "idle" => view[v].actor \in Actors
    /\ view[v].pc \in {"idle", "sent", "keyed", "collect", "wait"} => view[v].answer = Nothing
    /\ results[v] # Nothing => view[v].pc \notin {"idle", "sent", "keyed", "collect", "wait"} /\ Of(results[v], Key(v))
    /\ Collected(v)
    /\ Served(v)

DashboardInv ==
    /\ DashboardTypeOK
    /\ \A v \in Views : ViewOK(v)
    /\ \A k \in Keys : inFlight[k] # Nothing => Keyed(inFlight[k]) /\ Key(inFlight[k]) = k
    /\ \A k \in Keys : cache[k] # Nothing => DeliversTo(cache[k], k)
    /\ \A a \in Actors : tab[a].data # Nothing => tab[a].data.actor = a

-----------------------------------------------------------------------------

LEMMA DashboardInitInv == DashboardInit => DashboardInv
  <1> SUFFICES ASSUME DashboardInit PROVE DashboardInv
    OBVIOUS
  <1>1. DashboardTypeOK
    BY DEF DashboardInit, DashboardTypeOK, NoView, View, Scopes
  <1>2. \A v \in Views : ViewOK(v)
    BY DEF DashboardInit, ViewOK, Collected, Served, NoView
  <1>3. QED
    BY <1>1, <1>2 DEF DashboardInit, DashboardInv

LEMMA KeyType ==
  ASSUME NEW v \in Views, view[v] \in View, view[v].actor \in Actors
  PROVE  /\ Key(v) \in Keys /\ Key(v)[1] = view[v].actor /\ Key(v)[2] = view[v].effective
  BY DEF Key, Keys, View

(* One request moves on: its key stays once it is decided, results are     *)
(* only rewritten for the same user and scope.                             *)
LEMMA MoveInv ==
  ASSUME DashboardInv, NEW v \in Views, NEW w \in View, view' = [view EXCEPT ![v] = w],
         Keyed(v) => w.pc \notin {"idle", "sent"} /\ w.actor = view[v].actor /\ w.effective = view[v].effective,
         results' \in [Views -> Results \cup {Nothing}],
         \A u \in Views, k \in Keys : DeliversTo(u, k) => DeliversTo(u, k)',
         \A u \in Views \ {v} : results'[u] # Nothing => results[u] # Nothing,
         ViewOK(v)',
         inFlight' \in [Keys -> Views \cup {Nothing}],
         \A k \in Keys : \/ inFlight'[k] \in {inFlight[k], Nothing}
                         \/ inFlight'[k] = v /\ Keyed(v)' /\ Key(v)' = k,
         cache' \in [Keys -> Views \cup {Nothing}],
         \A k \in Keys : cache'[k] \in {cache[k], Nothing} \/ DeliversTo(cache[k], k)',
         tab' \in [Actors -> [scope: Scopes, data: Results \cup {Nothing}]],
         \A a \in Actors : tab'[a].data # Nothing => tab'[a].data.actor = a
  PROVE  DashboardInv'
  <1>1. /\ view' \in [Views -> View] /\ view'[v] = w
        /\ \A u \in Views \ {v} : view'[u] = view[u]
    BY DEF DashboardInv, DashboardTypeOK
  <1>2. DashboardTypeOK'
    BY <1>1 DEF DashboardTypeOK
  <1>3. \A u \in Views : Keyed(u) => Keyed(u)' /\ Key(u)' = Key(u)
    BY <1>1 DEF Keyed, Key
  <1>4. ASSUME NEW u \in Views \ {v} PROVE ViewOK(u)'
    <2>1. ViewOK(u) /\ view'[u] = view[u] /\ view[u] \in View /\ Key(u)' = Key(u)
      BY <1>1 DEF DashboardInv, DashboardTypeOK, Key
    <2>2. Collected(u)'
      BY <2>1 DEF ViewOK, Collected
    <2>3. ASSUME results'[u] # Nothing
          PROVE  view[u].pc \notin {"idle", "sent", "keyed", "collect", "wait"} /\ Of(results'[u], Key(u))
      <3>1. /\ results[u] # Nothing /\ Of(results[u], Key(u)) /\ view[u].actor \in Actors
            /\ view[u].pc \notin {"idle", "sent", "keyed", "collect", "wait"}
        BY <2>1, <2>3 DEF ViewOK
      <3>2. Key(u) \in Keys
        BY <2>1, <3>1, KeyType
      <3>3. DeliversTo(u, Key(u))
        BY <3>1 DEF DeliversTo
      <3>4. \A k \in Keys : DeliversTo(u, k)' => Of(results'[u], k)
        BY DEF DeliversTo, Of
      <3>5. QED
        BY <3>1, <3>2, <3>3, <3>4
    <2>4. view[u].pc = "wait" =>
            view[u].flight \in Views /\ Keyed(view[u].flight)' /\ Key(view[u].flight)' = Key(u)
      BY <1>3, <2>1 DEF ViewOK, Served
    <2>5. ASSUME view[u].pc \in {"leave", "meta", "store", "reply"}
          PROVE  view[u].result \in Views /\ DeliversTo(view[u].result, Key(u))'
      <3>1. view[u].result \in Views /\ DeliversTo(view[u].result, Key(u)) /\ view[u].actor \in Actors
        BY <2>1, <2>5 DEF ViewOK, Served
      <3>2. Key(u) \in Keys
        BY <2>1, <3>1, KeyType
      <3>3. \A x \in Views, k \in Keys : DeliversTo(x, k)' = (results'[x] # Nothing /\ Of(results'[x], k))
        BY DEF DeliversTo, Of
      <3>4. results'[view[u].result] # Nothing /\ Of(results'[view[u].result], Key(u))
        BY <3>1, <3>2, <3>3
      <3>5. QED
        BY <2>1, <3>1, <3>4 DEF DeliversTo, Of
    <2>6. Served(u)'
      <3>1. /\ view'[u].pc = "answered" => view'[u].answer # Nothing
            /\ view'[u].answer # Nothing => Of(view'[u].answer, Key(u)')
        BY <2>1 DEF ViewOK, Served
      <3>2. /\ view'[u].pc = "wait" =>
                 view'[u].flight \in Views /\ Keyed(view[u].flight)' /\ Key(view[u].flight)' = Key(u)'
            /\ view'[u].pc \in {"leave", "meta", "store", "reply"} =>
                 view'[u].result \in Views /\ DeliversTo(view[u].result, Key(u))'
        BY <2>1, <2>4, <2>5
      <3>3. QED
        BY <2>1, <3>1, <3>2 DEF Served, Of, DeliversTo, Keyed, Key
    <2>7. QED
      BY <2>1, <2>2, <2>3, <2>6 DEF ViewOK, Of
  <1>5. ASSUME NEW k \in Keys, inFlight'[k] # Nothing
        PROVE  (Keyed(inFlight[k]) /\ Key(inFlight[k]) = k)'
    <2>1. PICK f \in Views : f = inFlight'[k]
      BY <1>5
    <2>2. Keyed(f)' /\ Key(f)' = k
      BY <1>3, <1>5, <2>1 DEF DashboardInv, DashboardTypeOK
    <2>3. QED
      BY <2>1, <2>2 DEF Keyed, Key
  <1>6. ASSUME NEW k \in Keys, cache'[k] # Nothing
        PROVE  DeliversTo(cache[k], k)'
    <2>1. CASE cache'[k] = cache[k]
      <3>1. PICK x \in Views : x = cache[k] /\ DeliversTo(x, k)
        BY <1>6, <2>1 DEF DashboardInv, DashboardTypeOK
      <3>2. DeliversTo(x, k)'
        BY <3>1
      <3>3. QED
        BY <2>1, <3>1, <3>2 DEF DeliversTo, Of
    <2>2. QED
      BY <1>6, <2>1
  <1>7. QED
    BY <1>2, <1>4, <1>5, <1>6 DEF DashboardInv

(* The same when only the request itself changes.                          *)
LEMMA QuietInv ==
  ASSUME DashboardInv, NEW v \in Views, NEW w \in View, view' = [view EXCEPT ![v] = w],
         Keyed(v) => w.pc \notin {"idle", "sent"} /\ w.actor = view[v].actor /\ w.effective = view[v].effective,
         UNCHANGED <<inFlight, results, cache, tab>>, ViewOK(v)'
  PROVE  DashboardInv'
  <1>1. \A u \in Views, k \in Keys : DeliversTo(u, k) => DeliversTo(u, k)'
    BY DEF DeliversTo, Of
  <1>2. /\ inFlight' \in [Keys -> Views \cup {Nothing}] /\ results' \in [Views -> Results \cup {Nothing}]
        /\ cache' \in [Keys -> Views \cup {Nothing}]
        /\ tab' \in [Actors -> [scope: Scopes, data: Results \cup {Nothing}]]
        /\ \A a \in Actors : tab'[a].data # Nothing => tab'[a].data.actor = a
    BY DEF DashboardInv, DashboardTypeOK
  <1>3. /\ \A u \in Views \ {v} : results'[u] # Nothing => results[u] # Nothing
        /\ \A k \in Keys : inFlight'[k] \in {inFlight[k], Nothing} /\ cache'[k] \in {cache[k], Nothing}
    OBVIOUS
  <1>4. QED
    BY <1>1, <1>2, <1>3, MoveInv

LEMMA Own ==
  ASSUME DashboardInv, NEW v \in Views
  PROVE  /\ view[v] \in View /\ ViewOK(v)
         /\ view[v].pc # "idle" =>
              view[v].actor \in Actors /\ Key(v) \in Keys /\ Key(v)[1] = view[v].actor /\ Key(v)[2] = view[v].effective
  <1>1. view[v] \in View /\ ViewOK(v)
    BY DEF DashboardInv, DashboardTypeOK
  <1>2. view[v].pc # "idle" => view[v].actor \in Actors
    BY <1>1 DEF ViewOK
  <1>3. QED
    BY <1>1, <1>2, KeyType

(* What the request looks like after its step.                             *)
LEMMA Moved ==
  ASSUME DashboardInv, NEW v \in Views, NEW w, view' = [view EXCEPT ![v] = w],
         w.actor = view[v].actor, w.effective = view[v].effective
  PROVE  view'[v] = w /\ Key(v)' = Key(v) /\ \A u \in Views \ {v} : view'[u] = view[u]
  <1>1. view \in [Views -> View]
    BY DEF DashboardInv, DashboardTypeOK
  <1>2. view'[v] = w /\ \A u \in Views \ {v} : view'[u] = view[u]
    BY <1>1
  <1>3. QED
    BY <1>2 DEF Key

(* The request is over: what it was answered stays.                        *)
LEMMA OverInv ==
  ASSUME DashboardInv, NEW v \in Views, NEW pc \in {"done", "failed"},
         view[v].pc \in {"sent", "collect", "answered", "failed"},
         view' = [view EXCEPT ![v].pc = pc],
         UNCHANGED <<results, cache>>,
         inFlight' \in [Keys -> Views \cup {Nothing}],
         \A k \in Keys : inFlight'[k] \in {inFlight[k], Nothing},
         tab' \in [Actors -> [scope: Scopes, data: Results \cup {Nothing}]],
         \A a \in Actors : tab'[a].data # Nothing => tab'[a].data.actor = a
  PROVE  DashboardInv'
  <1> DEFINE w == [view[v] EXCEPT !.pc = pc]
  <1>1. view[v] \in View /\ ViewOK(v) /\ view[v].actor \in Actors /\ view' = [view EXCEPT ![v] = w]
    BY Own
  <1>2. /\ w \in View /\ w.pc = pc /\ w.actor = view[v].actor /\ w.effective = view[v].effective
        /\ w.answer = view[v].answer
    BY <1>1 DEF View
  <1> HIDE DEF w
  <1>3. view'[v] = w /\ Key(v)' = Key(v)
    BY <1>1, <1>2, Moved
  <1>4. ViewOK(v)'
    <2>1. results'[v] # Nothing => view'[v].pc \notin {"idle", "sent", "keyed", "collect", "wait"} /\ Of(results'[v], Key(v)')
      BY <1>1, <1>2, <1>3 DEF ViewOK
    <2>2. view'[v].answer # Nothing => Of(view'[v].answer, Key(v)')
      BY <1>1, <1>2, <1>3 DEF ViewOK, Served
    <2>3. QED
      BY <1>1, <1>2, <1>3, <2>1, <2>2 DEF ViewOK, Collected, Served, Of
  <1>5. \A u \in Views, k \in Keys : DeliversTo(u, k) => DeliversTo(u, k)'
    BY DEF DeliversTo, Of
  <1>6. /\ results' \in [Views -> Results \cup {Nothing}] /\ cache' \in [Keys -> Views \cup {Nothing}]
        /\ \A u \in Views \ {v} : results'[u] # Nothing => results[u] # Nothing
        /\ \A k \in Keys : cache'[k] \in {cache[k], Nothing}
    BY DEF DashboardInv, DashboardTypeOK
  <1>7. QED
    BY <1>1, <1>2, <1>4, <1>5, <1>6, MoveInv

LEMMA SendInv ==
  ASSUME DashboardInv, NEW v \in Views, Send(v)
  PROVE  DashboardInv'
  <1>1. PICK a \in Actors, s \in Scopes :
          /\ view' = [view EXCEPT ![v] = [NoView EXCEPT !.pc = "sent", !.actor = a, !.requested = s]]
          /\ tab' = [tab EXCEPT ![a].scope = s]
    BY DEF Send
  <1> DEFINE w == [NoView EXCEPT !.pc = "sent", !.actor = a, !.requested = s]
  <1>2. /\ view[v].pc = "idle" /\ view' = [view EXCEPT ![v] = w] /\ results' = results
        /\ inFlight' = inFlight /\ cache' = cache
    BY <1>1 DEF Send
  <1>3. /\ w \in View /\ w.pc = "sent" /\ w.actor = a /\ w.shown = {} /\ w.degraded = {} /\ w.answer = Nothing
    BY DEF NoView, View, Scopes
  <1> HIDE DEF w
  <1>4. view'[v] = w /\ results[v] = Nothing /\ ~Keyed(v)
    BY <1>2, Own DEF DashboardInv, DashboardTypeOK, ViewOK, Keyed
  <1>5. ViewOK(v)'
    BY <1>2, <1>3, <1>4 DEF ViewOK, Collected, Served
  <1>6. \A u \in Views, k \in Keys : DeliversTo(u, k) => DeliversTo(u, k)'
    BY <1>2 DEF DeliversTo, Of
  <1>7. /\ tab' \in [Actors -> [scope: Scopes, data: Results \cup {Nothing}]]
        /\ \A b \in Actors : tab'[b].data # Nothing => tab'[b].data.actor = b
    <2>1. /\ tab \in [Actors -> [scope: Scopes, data: Results \cup {Nothing}]]
          /\ \A b \in Actors : tab[b].data # Nothing => tab[b].data.actor = b
      BY DEF DashboardInv, DashboardTypeOK
    <2>2. \A b \in Actors : tab'[b] \in [scope: Scopes, data: Results \cup {Nothing}] /\ tab'[b].data = tab[b].data
      BY <1>1, <2>1
    <2>3. QED
      BY <1>1, <2>1, <2>2
  <1>8. /\ results' \in [Views -> Results \cup {Nothing}] /\ cache' \in [Keys -> Views \cup {Nothing}]
        /\ inFlight' \in [Keys -> Views \cup {Nothing}]
        /\ \A u \in Views \ {v} : results'[u] # Nothing => results[u] # Nothing
        /\ \A k \in Keys : inFlight'[k] \in {inFlight[k], Nothing} /\ cache'[k] \in {cache[k], Nothing}
    BY <1>2 DEF DashboardInv, DashboardTypeOK
  <1>9. QED
    BY <1>2, <1>3, <1>4, <1>5, <1>6, <1>7, <1>8, MoveInv

LEMMA ArriveInv ==
  ASSUME DashboardInv, NEW v \in Views, Arrive(v)
  PROVE  DashboardInv'
  <1> DEFINE shown == [scope |-> view[v].answer.scope, data |-> view[v].answer]
  <1>1. /\ view[v].pc = "answered" /\ view' = [view EXCEPT ![v].pc = "done"]
        /\ tab' = [tab EXCEPT ![view[v].actor] = shown]
        /\ inFlight' = inFlight /\ results' = results /\ cache' = cache
    BY DEF Arrive
  <1>2. /\ view[v].actor \in Actors /\ view[v].answer \in Results
        /\ view[v].answer.actor = view[v].actor
    BY <1>1, Own DEF ViewOK, Served, Of, View
  <1>3. shown \in [scope: Scopes, data: Results \cup {Nothing}] /\ shown.data.actor = view[v].actor
    BY <1>2 DEF Results
  <1> HIDE DEF shown
  <1>4. /\ tab' \in [Actors -> [scope: Scopes, data: Results \cup {Nothing}]]
        /\ \A b \in Actors : tab'[b].data # Nothing => tab'[b].data.actor = b
    BY <1>1, <1>2, <1>3 DEF DashboardInv, DashboardTypeOK
  <1>5. inFlight' \in [Keys -> Views \cup {Nothing}] /\ \A k \in Keys : inFlight'[k] \in {inFlight[k], Nothing}
    BY <1>1 DEF DashboardInv, DashboardTypeOK
  <1>6. QED
    BY <1>1, <1>4, <1>5, OverInv

LEMMA LoseInv ==
  ASSUME DashboardInv, NEW v \in Views, Lose(v)
  PROVE  DashboardInv'
  <1>1. /\ view[v].pc \in {"sent", "answered", "failed"} /\ view' = [view EXCEPT ![v].pc = "done"]
        /\ inFlight' = inFlight /\ results' = results /\ cache' = cache /\ tab' = tab
    BY DEF Lose
  <1>2. /\ tab' \in [Actors -> [scope: Scopes, data: Results \cup {Nothing}]]
        /\ \A b \in Actors : tab'[b].data # Nothing => tab'[b].data.actor = b
        /\ inFlight' \in [Keys -> Views \cup {Nothing}] /\ \A k \in Keys : inFlight'[k] \in {inFlight[k], Nothing}
    BY <1>1 DEF DashboardInv, DashboardTypeOK
  <1>3. QED
    BY <1>1, <1>2, OverInv

(* An entry of the table of flights is dropped.                            *)
LEMMA DroppedFlight ==
  ASSUME DashboardInv, NEW j \in Keys, inFlight' = [inFlight EXCEPT ![j] = Nothing]
  PROVE  /\ inFlight' \in [Keys -> Views \cup {Nothing}]
         /\ \A k \in Keys : inFlight'[k] \in {inFlight[k], Nothing}
  BY DEF DashboardInv, DashboardTypeOK

LEMMA RaiseBuildInv ==
  ASSUME DashboardInv, NEW v \in Views, RaiseBuild(v)
  PROVE  DashboardInv'
  <1>1. /\ view[v].pc = "collect" /\ view' = [view EXCEPT ![v].pc = "failed"]
        /\ inFlight' = [inFlight EXCEPT ![Key(v)] = Nothing]
        /\ results' = results /\ cache' = cache /\ tab' = tab
    BY DEF RaiseBuild
  <1>2. /\ tab' \in [Actors -> [scope: Scopes, data: Results \cup {Nothing}]]
        /\ \A b \in Actors : tab'[b].data # Nothing => tab'[b].data.actor = b
    BY <1>1 DEF DashboardInv, DashboardTypeOK
  <1>3. Key(v) \in Keys
    BY <1>1, Own
  <1>4. QED
    BY <1>1, <1>2, <1>3, DroppedFlight, OverInv

-----------------------------------------------------------------------------
LEMMA ResolveInv ==
  ASSUME DashboardInv, NEW v \in Views, Resolve(v)
  PROVE  DashboardInv'
  <1> DEFINE scope == IF view[v].requested = "cross" /\ view[v].actor \in granted THEN "cross" ELSE "mine"
             w == [view[v] EXCEPT !.pc = "keyed", !.effective = scope]
  <1>1. view[v] \in View /\ ViewOK(v) /\ view[v].pc = "sent" /\ view[v].actor \in Actors
    BY Own DEF Resolve
  <1>2. view' = [view EXCEPT ![v] = w] /\ UNCHANGED <<inFlight, results, cache, tab>>
    BY <1>1 DEF Resolve
  <1>3. scope \in Scopes
    BY DEF Scopes
  <1> HIDE DEF scope
  <1>4. /\ w \in View /\ w.pc = "keyed" /\ w.actor = view[v].actor /\ w.answer = view[v].answer
        /\ w.shown = view[v].shown /\ w.degraded = view[v].degraded
    BY <1>1, <1>3 DEF View
  <1> HIDE DEF w
  <1>5. view'[v] = w /\ ~Keyed(v) /\ results'[v] = Nothing /\ view[v].answer = Nothing
    BY <1>1, <1>2 DEF DashboardInv, DashboardTypeOK, Keyed, ViewOK
  <1>6. ViewOK(v)'
    BY <1>1, <1>4, <1>5 DEF ViewOK, Collected, Served
  <1>7. QED
    BY <1>2, <1>4, <1>5, <1>6, QuietInv

LEMMA HitInv ==
  ASSUME DashboardInv, NEW v \in Views, Hit(v)
  PROVE  DashboardInv'
  <1> DEFINE w == [view[v] EXCEPT !.pc = "reply", !.result = cache[Key(v)]]
  <1>1. /\ view[v] \in View /\ ViewOK(v) /\ view[v].pc = "keyed" /\ view[v].actor \in Actors /\ Key(v) \in Keys
        /\ cache[Key(v)] # Nothing
    BY Own DEF Hit
  <1>2. view' = [view EXCEPT ![v] = w] /\ UNCHANGED <<inFlight, results, cache, tab>>
    BY <1>1 DEF Hit
  <1>3. cache[Key(v)] \in Views /\ DeliversTo(cache[Key(v)], Key(v))
    BY <1>1 DEF DashboardInv, DashboardTypeOK
  <1>4. /\ w \in View /\ w.pc = "reply" /\ w.actor = view[v].actor /\ w.effective = view[v].effective
        /\ w.answer = view[v].answer /\ w.result = cache[Key(v)]
    BY <1>1, <1>3 DEF View
  <1> HIDE DEF w
  <1>5. view'[v] = w /\ Key(v)' = Key(v)
    BY <1>2, <1>4, Moved
  <1>6. results'[v] = Nothing /\ w.answer = Nothing
    BY <1>1, <1>2, <1>4 DEF ViewOK
  <1>7. DeliversTo(view[v].result, Key(v))'
    BY <1>2, <1>3, <1>4, <1>5 DEF DeliversTo, Of
  <1>8. ViewOK(v)'
    BY <1>1, <1>3, <1>4, <1>5, <1>6, <1>7 DEF ViewOK, Collected, Served
  <1>9. QED
    BY <1>2, <1>4, <1>8, QuietInv

LEMMA LeadBuildInv ==
  ASSUME DashboardInv, NEW v \in Views, LeadBuild(v)
  PROVE  DashboardInv'
  <1> DEFINE w == [view[v] EXCEPT !.pc = "collect", !.open = Domains]
  <1>1. /\ view[v] \in View /\ ViewOK(v) /\ view[v].pc = "keyed" /\ view[v].actor \in Actors /\ Key(v) \in Keys
    BY Own DEF LeadBuild
  <1>2. /\ view' = [view EXCEPT ![v] = w] /\ inFlight' = [inFlight EXCEPT ![Key(v)] = v]
        /\ results' = results /\ cache' = cache /\ tab' = tab
    BY <1>1 DEF LeadBuild
  <1>3. /\ w \in View /\ w.pc = "collect" /\ w.actor = view[v].actor /\ w.effective = view[v].effective
        /\ w.answer = view[v].answer /\ w.shown = view[v].shown /\ w.degraded = view[v].degraded
    BY <1>1 DEF View
  <1> HIDE DEF w
  <1>4. view'[v] = w /\ Key(v)' = Key(v)
    BY <1>2, <1>3, Moved
  <1>5. /\ results'[v] = Nothing /\ w.answer = Nothing /\ w.shown = {} /\ w.degraded = {}
    BY <1>1, <1>2, <1>3 DEF ViewOK, Collected
  <1>6. ViewOK(v)' /\ Keyed(v)'
    BY <1>1, <1>3, <1>4, <1>5 DEF ViewOK, Collected, Served, Keyed
  <1>7. \A u \in Views, k \in Keys : DeliversTo(u, k) => DeliversTo(u, k)'
    BY <1>2 DEF DeliversTo, Of
  <1>8. /\ results' \in [Views -> Results \cup {Nothing}] /\ cache' \in [Keys -> Views \cup {Nothing}]
        /\ inFlight' \in [Keys -> Views \cup {Nothing}]
        /\ tab' \in [Actors -> [scope: Scopes, data: Results \cup {Nothing}]]
        /\ \A a \in Actors : tab'[a].data # Nothing => tab'[a].data.actor = a
        /\ \A u \in Views \ {v} : results'[u] # Nothing => results[u] # Nothing
        /\ \A k \in Keys : cache'[k] \in {cache[k], Nothing}
    BY <1>1, <1>2 DEF DashboardInv, DashboardTypeOK
  <1>9. \A k \in Keys : \/ inFlight'[k] \in {inFlight[k], Nothing}
                        \/ inFlight'[k] = v /\ Keyed(v)' /\ Key(v)' = k
    BY <1>1, <1>2, <1>4, <1>6 DEF DashboardInv, DashboardTypeOK
  <1>10. QED
    BY <1>2, <1>3, <1>6, <1>7, <1>8, <1>9, MoveInv

LEMMA JoinBuildInv ==
  ASSUME DashboardInv, NEW v \in Views, JoinBuild(v)
  PROVE  DashboardInv'
  <1> DEFINE w == [view[v] EXCEPT !.pc = "wait", !.flight = inFlight[Key(v)]]
  <1>1. /\ view[v] \in View /\ ViewOK(v) /\ view[v].pc = "keyed" /\ view[v].actor \in Actors /\ Key(v) \in Keys
        /\ inFlight[Key(v)] # Nothing
    BY Own DEF JoinBuild
  <1>2. view' = [view EXCEPT ![v] = w] /\ UNCHANGED <<inFlight, results, cache, tab>>
    BY <1>1 DEF JoinBuild
  <1>3. PICK f \in Views : f = inFlight[Key(v)] /\ Keyed(f) /\ Key(f) = Key(v)
    BY <1>1 DEF DashboardInv, DashboardTypeOK
  <1>4. /\ w \in View /\ w.pc = "wait" /\ w.actor = view[v].actor /\ w.effective = view[v].effective
        /\ w.answer = view[v].answer /\ w.flight = f
    BY <1>1, <1>3 DEF View
  <1> HIDE DEF w
  <1>5. view'[v] = w /\ Key(v)' = Key(v) /\ \A u \in Views \ {v} : view'[u] = view[u]
    BY <1>2, <1>4, Moved
  <1>6. results'[v] = Nothing /\ w.answer = Nothing
    BY <1>1, <1>2, <1>4 DEF ViewOK
  <1>7. Keyed(f)' /\ Key(f)' = Key(v)
    BY <1>3, <1>4, <1>5 DEF Keyed, Key
  <1>8. Keyed(view[v].flight)' /\ Key(view[v].flight)' = Key(v)'
    BY <1>4, <1>5, <1>7 DEF Keyed, Key
  <1>9. ViewOK(v)'
    BY <1>1, <1>3, <1>4, <1>5, <1>6, <1>8 DEF ViewOK, Collected, Served
  <1>10. QED
    BY <1>2, <1>4, <1>9, QuietInv

(* A collector is done, or all are out of time: what is shown and what is  *)
(* named as degraded stay apart.                                           *)
LEMMA CollectingInv ==
  ASSUME DashboardInv, NEW v \in Views, view[v].pc = "collect",
         NEW open \in SUBSET view[v].open, NEW shown \in SUBSET Domains, NEW degraded \in SUBSET (Domains \cup {"gateway"}),
         view' = [view EXCEPT ![v] = [view[v] EXCEPT !.open = open, !.shown = shown, !.degraded = degraded]],
         shown \cap degraded = {}, open \cap (shown \cup degraded) = {},
         UNCHANGED <<inFlight, results, cache, tab>>
  PROVE  DashboardInv'
  <1> DEFINE w == [view[v] EXCEPT !.open = open, !.shown = shown, !.degraded = degraded]
  <1>1. view[v] \in View /\ ViewOK(v) /\ view[v].actor \in Actors
    BY Own
  <1>2. view' = [view EXCEPT ![v] = w] /\ UNCHANGED <<inFlight, results, cache, tab>>
    OBVIOUS
  <1>3. /\ w \in View /\ w.pc = "collect" /\ w.actor = view[v].actor /\ w.effective = view[v].effective
        /\ w.answer = view[v].answer /\ w.open = open /\ w.shown = shown /\ w.degraded = degraded
    BY <1>1 DEF View
  <1> HIDE DEF w
  <1>4. view'[v] = w /\ Key(v)' = Key(v)
    <2>1. view'[v] = w
      BY <1>2 DEF DashboardInv, DashboardTypeOK
    <2>2. QED
      BY <1>3, <2>1 DEF Key
  <1>5. results'[v] = Nothing /\ w.answer = Nothing
    BY <1>1, <1>2, <1>3 DEF ViewOK
  <1>6. ViewOK(v)'
    BY <1>1, <1>3, <1>4, <1>5 DEF ViewOK, Collected, Served
  <1>7. QED
    BY <1>2, <1>3, <1>6, QuietInv

LEMMA CollectInv ==
  ASSUME DashboardInv, NEW v \in Views, Collect(v)
  PROVE  DashboardInv'
  <1>1. PICK d \in view[v].open :
          \/ view' = [view EXCEPT ![v].open = @ \ {d}, ![v].shown = @ \cup {d}]
          \/ view' = [view EXCEPT ![v].open = @ \ {d}, ![v].degraded = @ \cup {d}]
    BY DEF Collect
  <1>2. view[v] \in View /\ ViewOK(v) /\ view[v].pc = "collect" /\ view \in [Views -> View]
    BY Own DEF Collect, DashboardInv, DashboardTypeOK
  <1>3. /\ view[v].open \subseteq Domains /\ view[v].shown \subseteq Domains
        /\ view[v].degraded \subseteq Domains \cup {"gateway"}
        /\ view[v].shown \cap view[v].degraded = {}
        /\ view[v].open \cap (view[v].shown \cup view[v].degraded) = {}
    BY <1>2 DEF View, ViewOK, Collected
  <1>4. UNCHANGED <<inFlight, results, cache, tab>>
    BY DEF Collect
  <1> DEFINE open == view[v].open \ {d}
             with(x) == x \cup {d}
  <1>5. /\ open \in SUBSET view[v].open /\ with(view[v].shown) \in SUBSET Domains
        /\ with(view[v].degraded) \in SUBSET (Domains \cup {"gateway"})
        /\ with(view[v].shown) \cap view[v].degraded = {} /\ view[v].shown \cap with(view[v].degraded) = {}
        /\ open \cap (with(view[v].shown) \cup view[v].degraded) = {}
        /\ open \cap (view[v].shown \cup with(view[v].degraded)) = {}
    BY <1>3
  <1>6. CASE view' = [view EXCEPT ![v].open = @ \ {d}, ![v].shown = @ \cup {d}]
    <2>1. view' = [view EXCEPT ![v] = [view[v] EXCEPT !.open = open, !.shown = with(view[v].shown),
                                                      !.degraded = view[v].degraded]]
      BY <1>2, <1>6 DEF View
    <2> HIDE DEF open, with
    <2>2. QED
      BY <1>2, <1>3, <1>4, <1>5, <2>1, CollectingInv
  <1>7. CASE view' = [view EXCEPT ![v].open = @ \ {d}, ![v].degraded = @ \cup {d}]
    <2>1. view' = [view EXCEPT ![v] = [view[v] EXCEPT !.open = open, !.shown = view[v].shown,
                                                      !.degraded = with(view[v].degraded)]]
      BY <1>2, <1>7 DEF View
    <2> HIDE DEF open, with
    <2>2. QED
      BY <1>2, <1>3, <1>4, <1>5, <2>1, CollectingInv
  <1>8. QED
    BY <1>1, <1>6, <1>7

LEMMA DeadlineInv ==
  ASSUME DashboardInv, NEW v \in Views, Deadline(v)
  PROVE  DashboardInv'
  <1>1. PICK late \in SUBSET view[v].open :
          view' = [view EXCEPT ![v].open = {}, ![v].degraded = @ \cup (view[v].open \ late)]
    BY DEF Deadline
  <1>2. view[v] \in View /\ ViewOK(v) /\ view[v].pc = "collect" /\ view \in [Views -> View]
    BY Own DEF Deadline, DashboardInv, DashboardTypeOK
  <1>3. /\ view[v].open \subseteq Domains /\ view[v].shown \subseteq Domains
        /\ view[v].degraded \subseteq Domains \cup {"gateway"}
        /\ view[v].shown \cap view[v].degraded = {}
        /\ view[v].open \cap (view[v].shown \cup view[v].degraded) = {}
    BY <1>2 DEF View, ViewOK, Collected
  <1> DEFINE degraded == view[v].degraded \cup (view[v].open \ late)
  <1>4. view' = [view EXCEPT ![v] = [view[v] EXCEPT !.open = {}, !.shown = view[v].shown, !.degraded = degraded]]
    BY <1>1, <1>2 DEF View
  <1>5. degraded \in SUBSET (Domains \cup {"gateway"}) /\ view[v].shown \cap degraded = {}
    BY <1>3
  <1>6. UNCHANGED <<inFlight, results, cache, tab>>
    BY DEF Deadline
  <1> HIDE DEF degraded
  <1>7. {} \in SUBSET view[v].open /\ {} \cap (view[v].shown \cup degraded) = {} /\ view[v].shown \in SUBSET Domains
    BY <1>3
  <1>8. QED
    BY <1>2, <1>4, <1>5, <1>6, <1>7, CollectingInv

-----------------------------------------------------------------------------
(* A request makes the result object that has its name.                    *)
LEMMA NewResultInv ==
  ASSUME DashboardInv, NEW v \in Views, view[v].pc \in {"collect", "wait"}, NEW pc \in {"leave", "store"},
         NEW shown \in SUBSET Domains, NEW degraded \in SUBSET (Domains \cup {"gateway"}),
         shown \cap degraded = {},
         results' = [results EXCEPT ![v] = Result(v, shown, degraded)],
         view' = [view EXCEPT ![v].pc = pc, ![v].result = v],
         UNCHANGED <<inFlight, cache, tab>>
  PROVE  DashboardInv'
  <1> DEFINE w == [view[v] EXCEPT !.pc = pc, !.result = v]
             x == Result(v, shown, degraded)
  <1>1. /\ view[v] \in View /\ ViewOK(v) /\ view[v].actor \in Actors /\ Key(v) \in Keys
        /\ Key(v)[1] = view[v].actor /\ Key(v)[2] = view[v].effective /\ view \in [Views -> View]
    BY Own DEF DashboardInv, DashboardTypeOK
  <1>2. view' = [view EXCEPT ![v] = w] /\ results' = [results EXCEPT ![v] = x]
    BY <1>1 DEF View
  <1>3. x \in Results /\ Of(x, Key(v))
    BY <1>1 DEF Result, Results, Of, View
  <1>4. x # Nothing
    BY <1>3, CacheAssumption
  <1>5. /\ w \in View /\ w.pc = pc /\ w.actor = view[v].actor /\ w.effective = view[v].effective
        /\ w.answer = view[v].answer /\ w.result = v
    BY <1>1 DEF View
  <1> HIDE DEF w, x
  <1>6. view'[v] = w /\ Key(v)' = Key(v)
    <2>1. view'[v] = w
      BY <1>1, <1>2
    <2>2. QED
      BY <1>5, <2>1 DEF Key
  <1>7. results[v] = Nothing /\ w.answer = Nothing
    BY <1>1, <1>5 DEF ViewOK
  <1>8. /\ results' \in [Views -> Results \cup {Nothing}] /\ results'[v] = x
        /\ \A u \in Views \ {v} : results'[u] = results[u]
    BY <1>2, <1>3 DEF DashboardInv, DashboardTypeOK
  <1>9. \A u \in Views, k \in Keys : DeliversTo(u, k) => DeliversTo(u, k)'
    BY <1>7, <1>8 DEF DeliversTo, Of
  <1>10. DeliversTo(view[v].result, Key(v))'
    BY <1>3, <1>4, <1>5, <1>6, <1>8 DEF DeliversTo, Of
  <1>11. ViewOK(v)'
    <2>1. Of(results'[v], Key(v)') /\ view'[v].pc \in {"leave", "store"} /\ view'[v].answer = Nothing
      BY <1>3, <1>5, <1>6, <1>7, <1>8
    <2>2. QED
      BY <1>1, <1>5, <1>6, <1>10, <2>1 DEF ViewOK, Collected, Served, Of
  <1>12. /\ cache' \in [Keys -> Views \cup {Nothing}] /\ inFlight' \in [Keys -> Views \cup {Nothing}]
         /\ tab' \in [Actors -> [scope: Scopes, data: Results \cup {Nothing}]]
         /\ \A a \in Actors : tab'[a].data # Nothing => tab'[a].data.actor = a
         /\ \A k \in Keys : inFlight'[k] \in {inFlight[k], Nothing} /\ cache'[k] \in {cache[k], Nothing}
    BY DEF DashboardInv, DashboardTypeOK
  <1>13. \A u \in Views \ {v} : results'[u] # Nothing => results[u] # Nothing
    BY <1>8
  <1>14. Keyed(v) => w.pc \notin {"idle", "sent"} /\ w.actor = view[v].actor /\ w.effective = view[v].effective
    BY <1>5
  <1>15. QED
    BY <1>2, <1>5, <1>8, <1>9, <1>11, <1>12, <1>13, <1>14, MoveInv

LEMMA AssembleInv ==
  ASSUME DashboardInv, NEW v \in Views, Assemble(v)
  PROVE  DashboardInv'
  <1>1. view[v] \in View /\ ViewOK(v) /\ view[v].pc = "collect"
    BY Own DEF Assemble
  <1>2. /\ view[v].shown \in SUBSET Domains /\ view[v].degraded \in SUBSET (Domains \cup {"gateway"})
        /\ view[v].shown \cap view[v].degraded = {}
    BY <1>1 DEF View, ViewOK, Collected
  <1>3. /\ results' = [results EXCEPT ![v] = Result(v, view[v].shown, view[v].degraded)]
        /\ view' = [view EXCEPT ![v].pc = "leave", ![v].result = v]
        /\ UNCHANGED <<inFlight, cache, tab>>
    BY DEF Assemble
  <1>4. QED
    BY <1>1, <1>2, <1>3, NewResultInv

LEMMA GiveUpInv ==
  ASSUME DashboardInv, NEW v \in Views, GiveUp(v)
  PROVE  DashboardInv'
  <1>1. /\ view[v].pc = "wait"
        /\ results' = [results EXCEPT ![v] = Result(v, {}, {"gateway"})]
        /\ view' = [view EXCEPT ![v].pc = "store", ![v].result = v]
        /\ UNCHANGED <<inFlight, cache, tab>>
    BY DEF GiveUp
  <1>2. {} \in SUBSET Domains /\ {"gateway"} \in SUBSET (Domains \cup {"gateway"}) /\ {} \cap {"gateway"} = {}
    OBVIOUS
  <1>3. QED
    BY <1>1, <1>2, NewResultInv

(* A result that is there for its key is taken over, or kept on its way.   *)
LEMMA HandOnInv ==
  ASSUME DashboardInv, NEW v \in Views, view[v].pc \in {"wait", "leave", "meta", "store"},
         NEW pc \in {"meta", "store", "reply"},
         NEW x \in Views, DeliversTo(x, Key(v)),
         view' = [view EXCEPT ![v].pc = pc, ![v].result = x],
         results' \in [Views -> Results \cup {Nothing}],
         \A u \in Views : results'[u] # Nothing => results[u] # Nothing,
         \A u \in Views, k \in Keys : DeliversTo(u, k) => DeliversTo(u, k)',
         inFlight' \in [Keys -> Views \cup {Nothing}],
         \A k \in Keys : inFlight'[k] \in {inFlight[k], Nothing},
         cache' \in [Keys -> Views \cup {Nothing}],
         \A k \in Keys : cache'[k] = cache[k] \/ (k = Key(v) /\ cache'[k] = x),
         tab' = tab
  PROVE  DashboardInv'
  <1> DEFINE w == [view[v] EXCEPT !.pc = pc, !.result = x]
  <1>1. /\ view[v] \in View /\ ViewOK(v) /\ view[v].actor \in Actors /\ Key(v) \in Keys
        /\ view \in [Views -> View]
    BY Own DEF DashboardInv, DashboardTypeOK
  <1>2. view' = [view EXCEPT ![v] = w]
    BY <1>1 DEF View
  <1>3. /\ w \in View /\ w.pc = pc /\ w.actor = view[v].actor /\ w.effective = view[v].effective
        /\ w.answer = view[v].answer /\ w.result = x
    BY <1>1 DEF View
  <1> HIDE DEF w
  <1>4. view'[v] = w /\ Key(v)' = Key(v)
    BY <1>2, <1>3, Moved
  <1>5. results'[x] # Nothing /\ Of(results'[x], Key(v))
    <2>1. DeliversTo(x, Key(v))'
      <3>1. \A k \in Keys : DeliversTo(x, k)' = (results'[x] # Nothing /\ Of(results'[x], k))
        BY DEF DeliversTo, Of
      <3>2. results'[x] # Nothing /\ Of(results'[x], Key(v))
        BY <1>1, <3>1
      <3>3. QED
        BY <1>4, <3>2 DEF DeliversTo, Of
    <2>2. QED
      BY <1>4, <2>1 DEF DeliversTo, Of
  <1>6. DeliversTo(view[v].result, Key(v))'
    BY <1>3, <1>4, <1>5 DEF DeliversTo, Of
  <1>7. results'[v] # Nothing => Of(results'[v], Key(v)') /\ view[v].pc # "wait"
    <2>1. ASSUME results'[v] # Nothing PROVE Of(results'[v], Key(v)) /\ view[v].pc # "wait"
      <3>1. results[v] # Nothing /\ Of(results[v], Key(v)) /\ view[v].pc # "wait"
        BY <1>1, <2>1 DEF ViewOK
      <3>2. \A k \in Keys : DeliversTo(v, k)' = (results'[v] # Nothing /\ Of(results'[v], k))
        BY DEF DeliversTo, Of
      <3>3. DeliversTo(v, Key(v))
        BY <3>1 DEF DeliversTo
      <3>4. QED
        BY <1>1, <3>1, <3>2, <3>3
    <2>2. QED
      BY <1>4, <2>1
  <1>8. ViewOK(v)'
    <2>1. view'[v].answer # Nothing => Of(view'[v].answer, Key(v)')
      BY <1>1, <1>3, <1>4 DEF ViewOK, Served
    <2>2. view'[v].pc = pc /\ view'[v].actor \in Actors /\ view'[v].result \in Views
      BY <1>1, <1>3, <1>4
    <2>3. QED
      BY <1>6, <1>7, <2>1, <2>2 DEF ViewOK, Collected, Served, Of
  <1>9. \A k \in Keys : cache'[k] \in {cache[k], Nothing} \/ DeliversTo(cache[k], k)'
    <2>1. ASSUME NEW k \in Keys, cache'[k] # cache[k] PROVE DeliversTo(cache[k], k)'
      <3>1. k = Key(v) /\ cache'[k] = x
        BY <2>1
      <3>2. QED
        BY <1>5, <3>1 DEF DeliversTo, Of
    <2>2. QED
      BY <2>1
  <1>10. /\ tab' \in [Actors -> [scope: Scopes, data: Results \cup {Nothing}]]
         /\ \A a \in Actors : tab'[a].data # Nothing => tab'[a].data.actor = a
    BY DEF DashboardInv, DashboardTypeOK
  <1>11. Keyed(v) => w.pc \notin {"idle", "sent"} /\ w.actor = view[v].actor /\ w.effective = view[v].effective
    BY <1>3
  <1>12. QED
    BY <1>2, <1>3, <1>8, <1>9, <1>10, <1>11, MoveInv

LEMMA SameResults ==
  ASSUME DashboardInv, results' = results
  PROVE  /\ results' \in [Views -> Results \cup {Nothing}]
         /\ \A u \in Views : results'[u] # Nothing => results[u] # Nothing
         /\ \A u \in Views, k \in Keys : DeliversTo(u, k) => DeliversTo(u, k)'
  BY DEF DashboardInv, DashboardTypeOK, DeliversTo, Of

LEMMA SameTables ==
  ASSUME DashboardInv
  PROVE  /\ inFlight' = inFlight => /\ inFlight' \in [Keys -> Views \cup {Nothing}]
                                    /\ \A k \in Keys : inFlight'[k] \in {inFlight[k], Nothing}
         /\ cache' = cache => /\ cache' \in [Keys -> Views \cup {Nothing}]
                              /\ \A k \in Keys : cache'[k] = cache[k]
  BY DEF DashboardInv, DashboardTypeOK

(* A request that goes on with the result it has.                          *)
LEMMA SameResult ==
  ASSUME DashboardInv, NEW v \in Views, NEW pc, view[v].pc \in {"leave", "meta", "store", "reply"},
         view' = [view EXCEPT ![v].pc = pc]
  PROVE  /\ view' = [view EXCEPT ![v].pc = pc, ![v].result = view[v].result]
         /\ view[v].result \in Views /\ DeliversTo(view[v].result, Key(v))
  <1>1. view[v] \in View /\ ViewOK(v) /\ view \in [Views -> View]
    BY Own DEF DashboardInv, DashboardTypeOK
  <1>2. [view[v] EXCEPT !.pc = pc] = [view[v] EXCEPT !.pc = pc, !.result = view[v].result]
    BY <1>1 DEF View
  <1>3. view[v].result \in Views /\ DeliversTo(view[v].result, Key(v))
    BY <1>1 DEF ViewOK, Served
  <1>4. QED
    BY <1>1, <1>2, <1>3

LEMMA LeaveInv ==
  ASSUME DashboardInv, NEW v \in Views, Leave(v)
  PROVE  DashboardInv'
  <1>1. /\ view[v].pc = "leave" /\ view' = [view EXCEPT ![v].pc = "meta"]
        /\ inFlight' = [inFlight EXCEPT ![Key(v)] = Nothing]
        /\ results' = results /\ cache' = cache /\ tab' = tab
    BY DEF Leave
  <1>2. Key(v) \in Keys
    BY <1>1, Own
  <1>3. /\ inFlight' \in [Keys -> Views \cup {Nothing}]
        /\ \A k \in Keys : inFlight'[k] \in {inFlight[k], Nothing}
    BY <1>1, <1>2, DroppedFlight
  <1>4. /\ view' = [view EXCEPT ![v].pc = "meta", ![v].result = view[v].result]
        /\ view[v].result \in Views /\ DeliversTo(view[v].result, Key(v))
    BY <1>1, SameResult
  <1>5. QED
    BY <1>1, <1>3, <1>4, SameResults, SameTables, HandOnInv

LEMMA WakeInv ==
  ASSUME DashboardInv, NEW v \in Views, Wake(v)
  PROVE  DashboardInv'
  <1>1. /\ view[v].pc = "wait" /\ results[view[v].flight] # Nothing
        /\ view' = [view EXCEPT ![v].pc = "meta", ![v].result = view[v].flight]
        /\ inFlight' = inFlight /\ results' = results /\ cache' = cache /\ tab' = tab
    BY DEF Wake
  <1>2. view[v] \in View /\ ViewOK(v)
    BY Own
  <1>3. view[v].flight \in Views /\ Key(view[v].flight) = Key(v)
    BY <1>1, <1>2 DEF ViewOK, Served
  <1>4. DeliversTo(view[v].flight, Key(v))
    <2>1. ViewOK(view[v].flight)
      BY <1>3 DEF DashboardInv
    <2>2. QED
      BY <1>1, <1>3, <2>1 DEF ViewOK, DeliversTo
  <1>5. QED
    BY <1>1, <1>3, <1>4, SameResults, SameTables, HandOnInv

LEMMA MetaInv ==
  ASSUME DashboardInv, NEW v \in Views, Meta(v)
  PROVE  DashboardInv'
  <1>1. /\ view[v].pc = "meta" /\ view' = [view EXCEPT ![v].pc = "store"]
        /\ results' = [results EXCEPT ![view[v].result].trace = v]
        /\ inFlight' = inFlight /\ cache' = cache /\ tab' = tab
    BY DEF Meta
  <1>2. /\ view' = [view EXCEPT ![v].pc = "store", ![v].result = view[v].result]
        /\ view[v].result \in Views /\ DeliversTo(view[v].result, Key(v))
    BY <1>1, SameResult
  <1>3. PICK x \in Views : x = view[v].result
    BY <1>2
  <1> DEFINE new == [results[x] EXCEPT !.trace = v]
  <1>4. results[x] \in Results /\ results \in [Views -> Results \cup {Nothing}]
    BY <1>2, <1>3 DEF DeliversTo, DashboardInv, DashboardTypeOK
  <1>5. /\ new \in Results /\ new.actor = results[x].actor /\ new.scope = results[x].scope
        /\ new.shown = results[x].shown /\ new.degraded = results[x].degraded
    BY <1>4 DEF Results
  <1>6. results' = [results EXCEPT ![x] = new] /\ new # Nothing
    BY <1>1, <1>3, <1>5, CacheAssumption
  <1> HIDE DEF new
  <1>7. /\ results' \in [Views -> Results \cup {Nothing}]
        /\ results'[x] = new /\ \A u \in Views \ {x} : results'[u] = results[u]
    BY <1>4, <1>5, <1>6
  <1>8. \A u \in Views : results'[u] # Nothing => results[u] # Nothing
    BY <1>2, <1>3, <1>7 DEF DeliversTo
  <1>9. \A u \in Views, k \in Keys : DeliversTo(u, k) => DeliversTo(u, k)'
    BY <1>5, <1>6, <1>7 DEF DeliversTo, Of
  <1>10. QED
    BY <1>1, <1>2, <1>7, <1>8, <1>9, SameTables, HandOnInv

LEMMA StoreInv ==
  ASSUME DashboardInv, NEW v \in Views, Store(v)
  PROVE  DashboardInv'
  <1>1. /\ view[v].pc = "store" /\ view' = [view EXCEPT ![v].pc = "reply"]
        /\ cache' = IF CacheOn THEN [cache EXCEPT ![Key(v)] = view[v].result] ELSE cache
        /\ inFlight' = inFlight /\ results' = results /\ tab' = tab
    BY DEF Store
  <1>2. /\ view' = [view EXCEPT ![v].pc = "reply", ![v].result = view[v].result]
        /\ view[v].result \in Views /\ DeliversTo(view[v].result, Key(v))
    BY <1>1, SameResult
  <1>3. Key(v) \in Keys
    BY <1>1, Own
  <1>4. /\ cache' \in [Keys -> Views \cup {Nothing}]
        /\ \A k \in Keys : cache'[k] = cache[k] \/ (k = Key(v) /\ cache'[k] = view[v].result)
    BY <1>1, <1>2, <1>3 DEF DashboardInv, DashboardTypeOK
  <1>5. QED
    BY <1>1, <1>2, <1>4, SameResults, SameTables, HandOnInv

LEMMA ReplyBuildInv ==
  ASSUME DashboardInv, NEW v \in Views, ReplyBuild(v)
  PROVE  DashboardInv'
  <1> DEFINE w == [view[v] EXCEPT !.pc = "answered", !.answer = results[view[v].result]]
  <1>1. /\ view[v] \in View /\ ViewOK(v) /\ view[v].pc = "reply" /\ view[v].actor \in Actors
        /\ view \in [Views -> View]
    BY Own DEF ReplyBuild, DashboardInv, DashboardTypeOK
  <1>2. view' = [view EXCEPT ![v] = w] /\ UNCHANGED <<inFlight, results, cache, tab>>
    BY <1>1 DEF ReplyBuild, View
  <1>3. view[v].result \in Views /\ DeliversTo(view[v].result, Key(v))
    BY <1>1 DEF ViewOK, Served
  <1>4. PICK x \in Results : x = results[view[v].result] /\ x # Nothing /\ Of(x, Key(v))
    BY <1>3 DEF DeliversTo, DashboardInv, DashboardTypeOK
  <1>5. /\ w \in View /\ w.pc = "answered" /\ w.actor = view[v].actor /\ w.effective = view[v].effective
        /\ w.answer = x
    BY <1>1, <1>4 DEF View
  <1> HIDE DEF w
  <1>6. view'[v] = w /\ Key(v)' = Key(v)
    BY <1>2, <1>5, Moved
  <1>7. results'[v] # Nothing => Of(results'[v], Key(v)')
    BY <1>1, <1>2, <1>6 DEF ViewOK
  <1>8. ViewOK(v)'
    <2>1. /\ view'[v].pc = "answered" /\ view'[v].actor \in Actors /\ view'[v].answer # Nothing
          /\ Of(view'[v].answer, Key(v)')
      BY <1>1, <1>4, <1>5, <1>6
    <2>2. QED
      BY <1>7, <2>1 DEF ViewOK, Collected, Served, Of
  <1>9. QED
    BY <1>2, <1>5, <1>8, QuietInv

-----------------------------------------------------------------------------
LEMMA ExpireInv ==
  ASSUME DashboardInv, NEW j \in Keys, Expire(j)
  PROVE  DashboardInv'
  <1>1. /\ cache' = [cache EXCEPT ![j] = Nothing] /\ view' = view /\ inFlight' = inFlight
        /\ results' = results /\ tab' = tab
    BY DEF Expire
  <1>2. DashboardTypeOK'
    BY <1>1 DEF DashboardInv, DashboardTypeOK
  <1>3. \A v \in Views : ViewOK(v)'
    BY <1>1 DEF DashboardInv, ViewOK, Collected, Served, DeliversTo, Of, Keyed, Key
  <1>4. (\A k \in Keys : cache[k] # Nothing => DeliversTo(cache[k], k))'
    BY <1>1 DEF DashboardInv, DashboardTypeOK, DeliversTo, Of
  <1>5. (\A k \in Keys : inFlight[k] # Nothing => Keyed(inFlight[k]) /\ Key(inFlight[k]) = k)'
    BY <1>1 DEF DashboardInv, Keyed, Key
  <1>6. QED
    BY <1>1, <1>2, <1>3, <1>4, <1>5 DEF DashboardInv

LEMMA SameInv ==
  ASSUME DashboardInv, UNCHANGED <<view, inFlight, results, cache, tab>>
  PROVE  DashboardInv'
  BY DEF DashboardInv, DashboardTypeOK, ViewOK, Collected, Served, DeliversTo, Of, Keyed, Key

LEMMA DashboardStepInv == DashboardInv /\ [DashboardNext]_dashboardVars => DashboardInv'
  <1> SUFFICES ASSUME DashboardInv, [DashboardNext]_dashboardVars PROVE DashboardInv'
    OBVIOUS
  <1>1. CASE UNCHANGED dashboardVars
    BY <1>1, SameInv DEF dashboardVars
  <1>2. ASSUME NEW a \in Actors, Grant(a) PROVE DashboardInv'
    BY <1>2, SameInv DEF Grant
  <1>3. ASSUME NEW v \in Views,
               \/ Send(v) \/ Arrive(v) \/ Lose(v)
               \/ Resolve(v) \/ Hit(v) \/ LeadBuild(v) \/ JoinBuild(v) \/ Collect(v) \/ Deadline(v)
               \/ Assemble(v) \/ Leave(v) \/ RaiseBuild(v) \/ Wake(v) \/ GiveUp(v)
               \/ Meta(v) \/ Store(v) \/ ReplyBuild(v)
        PROVE  DashboardInv'
    BY <1>3, SendInv, ArriveInv, LoseInv, ResolveInv, HitInv, LeadBuildInv, JoinBuildInv, CollectInv,
       DeadlineInv, AssembleInv, LeaveInv, RaiseBuildInv, WakeInv, GiveUpInv, MetaInv, StoreInv, ReplyBuildInv
  <1>4. QED
    BY <1>1, <1>2, <1>3, ExpireInv DEF DashboardNext

(* Whoever led, followed, gave up or filled the cache, and however         *)
(* permissions changed meanwhile: an answer was collected for its user in  *)
(* the scope decided for this request, shows no degraded domain, and no    *)
(* tab shows another user's data (PortalDashboardService.build: the key of *)
(* cache and flight is actor and effective scope).                         *)
THEOREM OwnScopeCorrect == DashboardSpec => []AnswersOwnScope
  <1>1. DashboardInv => AnswersOwnScope
    <2> SUFFICES ASSUME DashboardInv PROVE AnswersOwnScope
      OBVIOUS
    <2>1. ASSUME NEW v \in Views, view[v].answer # Nothing
          PROVE  /\ view[v].answer.actor = view[v].actor /\ view[v].answer.scope = view[v].effective
                 /\ view[v].answer.shown \cap view[v].answer.degraded = {}
      <3>1. ViewOK(v) /\ view[v].pc # "idle"
        BY <2>1 DEF DashboardInv, ViewOK
      <3>2. Of(view[v].answer, Key(v)) /\ Key(v)[1] = view[v].actor /\ Key(v)[2] = view[v].effective
        BY <2>1, <3>1, Own DEF ViewOK, Served
      <3>3. QED
        BY <3>2 DEF Of
    <2>2. QED
      BY <2>1 DEF DashboardInv, AnswersOwnScope
  <1>2. QED
    BY <1>1, DashboardInitInv, DashboardStepInv, PTL DEF DashboardSpec

=============================================================================
