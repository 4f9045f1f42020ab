--------------------------- MODULE SessionRefresh ---------------------------
(***************************************************************************)
(* The refresh of a session: requests of the gateway that met a 401 share  *)
(* one exchange per process and refresh token (RefreshSingleFlight), others*)
(* ask IAM directly (/bff/auth/refresh, /bff/auth/logout); IAM rotates the *)
(* hashes of the session row and revokes the session when an old token     *)
(* comes back.  A request of the gateway may give up while IAM still works *)
(* on it, so both sides have a state of their own for each call.           *)
(***************************************************************************)
CONSTANTS
    Sessions,   \* session rows; the name also stands for the token login gave
    Calls,      \* requests; the name also stands for the token it may obtain
    Workers,    \* gateway processes, each with its own RefreshSingleFlight
    None

ASSUME NamesAssumption == Sessions \cap Calls = {} /\ None \notin Sessions \cup Calls

VARIABLES
    rows,      \* the table sessions of iam-service
    iam,       \* the request at IAM made for each call
    call,      \* where each call is in the gateway, and what it was answered
    flights,   \* RefreshSingleFlight._flights of each process: token -> leader
    flight     \* the _Flight object made by each leader

vars == <<rows, iam, call, flights, flight>>

Tokens == Sessions \cup Calls

Row == [status: {"absent", "active", "revoked"},
        current: Tokens \cup {None}, previous: Tokens \cup {None}]

NoRow == [status |-> "absent", current |-> None, previous |-> None]

IamRequest == [step: {"none", "find", "revoke", "save", "flush", "refused", "done"},
               session: Sessions \cup {None}, image: Row, loaded: Row]

NoRequest == [step |-> "none", session |-> None, image |-> NoRow, loaded |-> NoRow]

Kinds == {"proxy", "refresh", "logout"}

Call == [pc: {"idle", "lead", "leave", "wait", "ask", "done"}, kind: Kinds \cup {"none"},
         worker: Workers \cup {None}, token: Tokens \cup {None},
         flight: Calls \cup {None}, answer: Calls \cup {None}]

NoCall == [pc |-> "idle", kind |-> "none", worker |-> None, token |-> None,
           flight |-> None, answer |-> None]

Flight == [complete: BOOLEAN, result: Calls \cup {None}]

NewFlight == [complete |-> FALSE, result |-> None]

(* Every variable has its type.                                            *)
TypeOK ==
    /\ rows \in [Sessions -> Row]
    /\ iam \in [Calls -> IamRequest]
    /\ call \in [Calls -> Call]
    /\ flights \in [Workers -> [Tokens -> Calls \cup {None}]]
    /\ flight \in [Calls -> Flight]

Init ==
    /\ rows = [s \in Sessions |-> NoRow]
    /\ iam = [c \in Calls |-> NoRequest]
    /\ call = [c \in Calls |-> NoCall]
    /\ flights = [w \in Workers |-> [t \in Tokens |-> None]]
    /\ flight = [c \in Calls |-> NewFlight]

(* The session a token was issued for.                                     *)
SessionOf(t) == IF t \in Sessions THEN t ELSE iam[t].session

(* What browsers have been given; a request sent earlier may carry any.    *)
Issued == {s \in Sessions : rows[s].status # "absent"}
              \cup ({call[c].answer : c \in Calls} \ {None})

-----------------------------------------------------------------------------
(* SessionService.login, Session.create *)

Login(s) ==
    /\ rows[s].status = "absent"
    /\ rows' = [rows EXCEPT ![s] = [status |-> "active", current |-> s, previous |-> None]]
    /\ UNCHANGED <<iam, call, flights, flight>>

-----------------------------------------------------------------------------
(* The gateway takes a request with the refresh cookie t in process w *)

Accept(c, pc, kind, w, t, f) ==
    /\ call[c].pc = "idle"
    /\ call' = [call EXCEPT ![c] = [pc |-> pc, kind |-> kind, worker |-> w, token |-> t,
                                    flight |-> f, answer |-> None]]
    /\ UNCHANGED <<rows, flight>>

AskIam(c) == iam' = [iam EXCEPT ![c].step = "find"]

FreeUnlocked(w, t) == TRUE   \* mutated: _flights is read outside of the lock

Free(w, t) == flights[w][t] = None

JoinAnyToken(w, t) == {flights[w][u] : u \in Tokens} \ {None}   \* mutated: one key for all

Join(w, t) == {flights[w][t]} \ {None}

Lead(c) ==
    \E w \in Workers, t \in Issued :
        /\ Free(w, t)
        /\ flights' = [flights EXCEPT ![w][t] = c]
        /\ Accept(c, "lead", "proxy", w, t, c)
        /\ AskIam(c)

Follow(c) ==
    \E w \in Workers, t \in Issued : \E f \in Join(w, t) :
        /\ Accept(c, "wait", "proxy", w, t, f)
        /\ UNCHANGED <<iam, flights>>

Ask(c) ==
    /\ \E k \in {"refresh", "logout"}, t \in Issued : Accept(c, "ask", k, None, t, None)
    /\ AskIam(c)
    /\ UNCHANGED flights

-----------------------------------------------------------------------------
(* IAM: SessionService.refresh and logout, each repository call a          *)
(* transaction of its own                                                  *)

Matches(t) == {s \in Sessions : t \in {rows[s].current, rows[s].previous}}

Usable(t) == {s \in Matches(t) : rows[s].status = "active"}

ReusedNever(s, t) == FALSE   \* mutated: either hash of the row is accepted

Reused(s, t) == rows[s].previous = t

RotatedSwapped(row, new) == [row EXCEPT !.previous = new, !.current = new]   \* mutated: order of the assignments

Rotated(row, new) == [row EXCEPT !.previous = row.current, !.current = new]

Step(c, step, s, image, loaded) ==
    iam' = [iam EXCEPT ![c] = [step |-> step, session |-> s, image |-> image, loaded |-> loaded]]

AtIam == UNCHANGED <<call, flights, flight>>

Reject(c) == Step(c, "refused", iam[c].session, NoRow, NoRow)

FindToRefresh(c) ==
    /\ iam[c].step = "find" /\ call[c].kind # "logout"
    /\ \/ Usable(call[c].token) = {} /\ Reject(c)
       \/ \E s \in Usable(call[c].token) :
              \/ Reused(s, call[c].token) /\ Step(c, "revoke", s, NoRow, NoRow)
              \/ /\ ~Reused(s, call[c].token)
                 /\ Step(c, "save", s, Rotated(rows[s], c), NoRow)
    /\ AtIam /\ UNCHANGED rows

FindToLogOut(c) ==
    /\ iam[c].step = "find" /\ call[c].kind = "logout"
    /\ \/ Usable(call[c].token) = {} /\ Step(c, "done", None, NoRow, NoRow)
       \/ \E s \in Usable(call[c].token) :
              Step(c, "save", s, [rows[s] EXCEPT !.status = "revoked"], NoRow)
    /\ AtIam /\ UNCHANGED rows

(* The user of the session has been disabled or locked.                    *)
UserInactive(c) ==
    /\ iam[c].step = "save" /\ call[c].kind # "logout"
    /\ Reject(c)
    /\ AtIam /\ UNCHANGED rows

RevokeFamily(c) ==
    /\ iam[c].step = "revoke"
    /\ rows' = [rows EXCEPT ![iam[c].session].status = IF @ = "active" THEN "revoked" ELSE @]
    /\ Reject(c)
    /\ AtIam

(* save_session: merge selects the row, then updates the columns in which  *)
(* the session read earlier differs from it, wherever the row is by then.  *)
Load(c) ==
    /\ iam[c].step = "save"
    /\ Step(c, "flush", iam[c].session, iam[c].image, rows[iam[c].session])
    /\ AtIam /\ UNCHANGED rows

Merged(row, image, loaded) ==
    [column \in DOMAIN row |-> IF image[column] # loaded[column] THEN image[column] ELSE row[column]]

Flush(c) ==
    /\ iam[c].step = "flush"
    /\ rows' = [rows EXCEPT ![iam[c].session] = Merged(@, iam[c].image, iam[c].loaded)]
    /\ Step(c, "done", iam[c].session, NoRow, NoRow)
    /\ AtIam

-----------------------------------------------------------------------------
(* The gateway: RefreshSingleFlight.run and the direct endpoints *)

Answered(c) == iam[c].step \in {"refused", "done"}

PairUnrotated(c) ==   \* mutated: the token presented is sent back
    IF iam[c].step = "done" /\ call[c].kind # "logout" THEN call[c].token ELSE None

Pair(c) == IF iam[c].step = "done" /\ call[c].kind # "logout" THEN c ELSE None

AtGateway == UNCHANGED <<rows, iam>>

Finish(c, answer) == call' = [call EXCEPT ![c] = [@ EXCEPT !.pc = "done", !.answer = answer]]

Publish(c) ==
    /\ call[c].pc = "lead" /\ Answered(c)
    /\ flight' = [flight EXCEPT ![c] = [complete |-> TRUE, result |-> Pair(c)]]
    /\ call' = [call EXCEPT ![c].pc = "leave"]
    /\ AtGateway /\ UNCHANGED flights

(* IAM does not answer in time, or the connection breaks: the operation of *)
(* the leader raises, and its flight is never completed.                   *)
Raise(c) ==
    /\ call[c].pc = "lead"
    /\ call' = [call EXCEPT ![c].pc = "leave"]
    /\ AtGateway /\ UNCHANGED <<flights, flight>>

Pop(c) ==
    /\ call[c].pc = "leave"
    /\ flights' = [flights EXCEPT ![call[c].worker][call[c].token] = None]
    /\ Finish(c, flight[c].result)
    /\ AtGateway /\ UNCHANGED flight

Observe(c) ==
    /\ call[c].pc = "wait" /\ flight[call[c].flight].complete
    /\ Finish(c, flight[call[c].flight].result)
    /\ AtGateway /\ UNCHANGED <<flights, flight>>

TimeOutNever(c) == FALSE   \* mutated: wait without a deadline

(* The deadline of a follower passes, even if its flight has just ended.   *)
TimeOut(c) ==
    /\ call[c].pc = "wait"
    /\ Finish(c, None)
    /\ AtGateway /\ UNCHANGED <<flights, flight>>

Reply(c) ==
    /\ call[c].pc = "ask"
    /\ \/ Answered(c) /\ Finish(c, Pair(c))
       \/ Finish(c, None)     \* no answer in time
    /\ AtGateway /\ UNCHANGED <<flights, flight>>

Receive(c) == Lead(c) \/ Follow(c) \/ Ask(c)

Iam(c) == FindToRefresh(c) \/ FindToLogOut(c) \/ UserInactive(c)
              \/ RevokeFamily(c) \/ Load(c) \/ Flush(c)

Gateway(c) == Publish(c) \/ Raise(c) \/ Pop(c) \/ Observe(c) \/ TimeOut(c) \/ Reply(c)

Next ==
    \/ \E s \in Sessions : Login(s)
    \/ \E c \in Calls : Receive(c) \/ Iam(c) \/ Gateway(c)

Spec == Init /\ [][Next]_vars

(* Threads that can run do, and every wait of the gateway has a deadline.  *)
(* Nothing is assumed of IAM.                                              *)
FairSpec == Spec /\ \A c \in Calls : WF_vars(Gateway(c))

-----------------------------------------------------------------------------
(* Properties *)

Leading(c) == call[c].pc \in {"lead", "leave"}

(* In one process at most one exchange per refresh token runs at a time,   *)
(* and what the table of flights names is a call that still leads it: no   *)
(* flight is left behind for later requests to wait on.                    *)
OneFlight ==
    /\ \A c, d \in Calls :
         /\ Leading(c) /\ Leading(d)
         /\ call[c].worker = call[d].worker /\ call[c].token = call[d].token
         => c = d
    /\ \A w \in Workers, t \in Tokens : flights[w][t] # None =>
         LET c == flights[w][t] IN Leading(c) /\ call[c].worker = w /\ call[c].token = t

(* The tokens a request is answered with were obtained for the refresh     *)
(* token it came with itself, although another request may have obtained   *)
(* them: nobody is handed the session of someone else.                     *)
AnswersOwnToken ==
    \A c \in Calls : call[c].answer # None => call[call[c].answer].token = call[c].token

LogoutAsked(s) == \E c \in Calls : call[c].kind = "logout" /\ SessionOf(call[c].token) = s

(* While nobody logs out, one process obtains at most one pair for one     *)
(* refresh token through its flights: a request that comes after the       *)
(* flight has ended exchanges nothing, whatever IAM has abandoned half     *)
(* done and whatever other processes do meanwhile.                         *)
ExchangedOnce ==
    \A c, d \in Calls :
        /\ call[c].kind = "proxy" /\ call[d].kind = "proxy"
        /\ call[c].answer = c /\ call[d].answer = d
        /\ call[c].worker = call[d].worker /\ call[c].token = call[d].token
        /\ ~LogoutAsked(SessionOf(call[c].token))
        => c = d

PresentedTwice(s) ==
    \E c, d \in Calls :
        /\ c # d /\ call[c].token = call[d].token
        /\ call[c].token # None /\ SessionOf(call[c].token) = s

(* A session is revoked only if someone asked to log out, or if two calls  *)
(* came with the same token: a client that uses each token once never      *)
(* loses its session to the detection of reuse.                            *)
RevokedForCause ==
    \A s \in Sessions : rows[s].status = "revoked" => LogoutAsked(s) \/ PresentedTwice(s)

(* What the product document promises of a session: revoked is final.  The *)
(* copy a refresh read before a logout is merged over it all the same.     *)
RevokedIsFinal ==
    [][\A s \in Sessions : rows[s].status = "revoked" => rows'[s].status = "revoked"]_vars

(* Every request ends, also when the operation of its leader has raised    *)
(* and its flight will never be completed.                                 *)
EveryCallEnds == <>[](\A c \in Calls : call[c].pc \in {"idle", "done"})

=============================================================================
