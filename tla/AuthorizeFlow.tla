---------------------------- MODULE AuthorizeFlow ----------------------------
(***************************************************************************)
(* The authorization flow: authorize() and callback() (views.py), the      *)
(* session cookie they keep their state in, and the code exchange.         *)
(*                                                                         *)
(* The tabs of a browser share its cookie.  A request carries the cookie   *)
(* as it was when the request was sent, and the cookie changes when a      *)
(* response arrives, so the requests of several tabs overtake each other.  *)
(* A flow, a call of authorize() that redirected, is known by its number,  *)
(* which also stands for the random state generated for it.  The exchange  *)
(* of the code is a call of fetch(), of which FetchSpec is the promise.    *)
(***************************************************************************)
EXTENDS OAuthOutcome, FiniteSets

CONSTANTS
  Tabs,             \* browser tabs; each stands for the client that opened it
  Browsers,
  ClientIds,        \* ids db.generate_id() may come up with
  NoClient,         \* no client_state, or no row in the tokens table
  TotalRetries,     \* settings.fetch.total_retries
  ProviderErrors,   \* error codes of a callback
  Troubles,         \* answers of the token endpoint that settle nothing
  MaxFlows          \* bound: flows

Flows == 1..MaxFlows
NoFlow == 0

\* The members of the session that the bridge uses.
Session == [state : Flows \cup {NoFlow}, client_state : Tabs \cup {NoClient}]
NoSession == [state |-> NoFlow, client_state |-> NoClient]

\* The query of a callback: its state, and a code or an error.
Args == [state : Flows \cup {NoFlow},
         kind : {"none", "code", "bare"} \cup ProviderErrors]
NoArgs == [state |-> NoFlow, kind |-> "none"]

Granted == [status |-> 200, body |-> [error |-> NoError, token |-> TRUE, refresh |-> 1]]
Refused == [status |-> 400, body |-> ErrorBody("invalid_grant")]

PageErrors == OAuthErrors \cup {"integrity_error", "internal_error"}
Page ==
  [what : {"blank", "error", "credentials"} \cup PageErrors, id : ClientIds \cup {NoClient},
   flow : Flows \cup {NoFlow}, client_state : Tabs \cup {NoClient}]
Blank ==
  [what |-> "blank", id |-> NoClient, flow |-> NoFlow, client_state |-> NoClient]
Failed == [Blank EXCEPT !.what = "error"]   \* which error is not remembered

ASSUME AuthorizeFlowAssumption ==
  /\ NoClient \notin Tabs \cup ClientIds \cup Flows
  /\ TotalRetries \in Nat /\ MaxFlows \in Nat
  /\ {"none", "code", "bare"} \cap ProviderErrors = {}
  \* A token in an answer that fetch() takes for final means the code is redeemed.
  /\ \A a \in Troubles :
       \/ a.status \in RetryStatusCodes \cup {NoStatus}
       \/ a.body.error # NoError \/ ~validate_token(a.body)

VARIABLES
  browser,    \* the browser each tab is in
  flows,      \* flows begun so far
  begun,      \* history: the tab that began each flow
  code,       \* provider: what became of each flow
  cookie,     \* the session cookie of each browser
  table,      \* the tokens table: client id -> the flow its grant is from
  answered,   \* history: flows whose callback the browser got a response to
  pc,         \* what each tab is doing
  sent,       \* the session its request carried
  args,       \* the query of its request
  reply,      \* the page on its way to it
  page,       \* the page it shows
  phase, sends, result   \* the call of fetch() on its behalf (FetchSpec)

fetching == <<phase, sends, result>>
vars ==
  <<browser, flows, begun, code, cookie, table, answered, pc, sent, args, reply, page,
    fetching>>

Exchange == INSTANCE FetchSpec WITH Threads <- Tabs, Answers <- Troubles

Init ==
  /\ browser \in [Tabs -> Browsers]
  /\ flows = 0
  /\ begun = [n \in Flows |-> NoClient]
  /\ code = [n \in Flows |-> "none"]
  /\ cookie = [b \in Browsers |-> NoSession]
  /\ table = [id \in ClientIds |-> NoFlow]
  /\ answered = {}
  /\ pc = [t \in Tabs |-> "idle"]
  /\ sent = [t \in Tabs |-> NoSession]
  /\ args = [t \in Tabs |-> NoArgs]
  /\ reply = [t \in Tabs |-> Blank]
  /\ page = [t \in Tabs |-> Blank]
  /\ Exchange!Init

Goto(t, label) == pc' = [pc EXCEPT ![t] = label]

Respond(t, what, id, flow, client_state) ==
  /\ Goto(t, "reply")
  /\ reply' = [reply EXCEPT ![t] =
       [what |-> what, id |-> id, flow |-> flow, client_state |-> client_state]]

ErrorPage(t, error) == Respond(t, error, NoClient, NoFlow, sent[t].client_state)

-----------------------------------------------------------------------------
(* authorize().                                                            *)

\* A wrong redirect_uri, or a scope that is not allowed: the session is left
\* alone.
RefuseAuthorize(t) ==
  /\ pc[t] = "idle"
  /\ page' = [page EXCEPT ![t] = Failed]
  /\ UNCHANGED <<flows, begun, code, cookie, table, answered, pc, sent, args, reply,
                 fetching>>

Authorize(t) ==
  /\ pc[t] = "idle"
  /\ flows < MaxFlows
  /\ flows' = flows + 1
  /\ begun' = [begun EXCEPT ![flows'] = t]
  /\ args' = [args EXCEPT ![t] = [state |-> flows', kind |-> "none"]]
  /\ sent' = [sent EXCEPT ![t] = [state |-> flows', client_state |-> t]]
  /\ page' = [page EXCEPT ![t] = Blank]
  /\ Goto(t, "redirect")
  /\ UNCHANGED <<code, cookie, table, answered, reply, fetching>>

\* The redirect arrives with the new session, and the tab goes to the provider.
Redirected(t) ==
  /\ pc[t] = "redirect"
  /\ cookie' = [cookie EXCEPT ![browser[t]] = sent[t]]
  /\ Goto(t, "consent")
  /\ UNCHANGED <<flows, begun, code, table, answered, sent, args, reply, page, fetching>>

-----------------------------------------------------------------------------
(* The user and the provider; external.                                    *)

\* A request for the callback, with the cookie the browser has now.
OpenCallback(t, query) ==
  /\ args' = [args EXCEPT ![t] = query]
  /\ sent' = [sent EXCEPT ![t] = cookie[browser[t]]]
  /\ page' = [page EXCEPT ![t] = Blank]
  /\ Goto(t, "callback")
  /\ UNCHANGED <<flows, begun, cookie, table, answered, reply, fetching>>

\* The user consents, or not, and the provider redirects the tab.
Consent(t) ==
  /\ pc[t] = "consent"
  /\ LET n == args[t].state
     IN  \/ /\ OpenCallback(t, [state |-> n, kind |-> "code"])
            /\ code' = [code EXCEPT ![n] = "issued"]
         \/ \E error \in ProviderErrors :
              /\ OpenCallback(t, [state |-> n, kind |-> error])
              /\ code' = [code EXCEPT ![n] = error]

\* The URI of a callback is opened again: a reload, another tab, another browser.
OpenAgain(t) ==
  /\ pc[t] = "idle"
  /\ \E n \in Flows :
       /\ code[n] # "none"
       /\ OpenCallback(t, [state |-> n, kind |-> IF code[n] \in ProviderErrors
                                                   THEN code[n] ELSE "code"])
  /\ UNCHANGED code

\* The callback is opened without its parameters.
OpenBare(t) ==
  /\ pc[t] = "idle"
  /\ \/ OpenCallback(t, NoArgs)
     \/ OpenCallback(t, [state |-> cookie[browser[t]].state, kind |-> "bare"])
  /\ UNCHANGED code

-----------------------------------------------------------------------------
(* callback(): both members of the session are popped first.               *)

\* Mutant: any session lets a callback through.
callback_error_no_match(session, query) ==
  IF query.kind = "none" THEN "invalid_request"
  ELSE IF session.state = NoFlow THEN "invalid_state"
  ELSE IF query.kind \in ProviderErrors
    THEN normalize_error(query.kind, AUTHORIZATION_ERRORS, "server_error")
  ELSE IF query.kind = "bare" THEN "invalid_request"
  ELSE NoError

callback_error(session, query) ==
  IF query.kind = "none" THEN "invalid_request"
  ELSE IF session.state = NoFlow \/ session.state # query.state THEN "invalid_state"
  ELSE IF query.kind \in ProviderErrors
    THEN normalize_error(query.kind, AUTHORIZATION_ERRORS, "server_error")
  ELSE IF query.kind = "bare" THEN "invalid_request"
  ELSE NoError

RejectCallback(t) ==
  /\ pc[t] = "callback"
  /\ callback_error(sent[t], args[t]) # NoError
  /\ ErrorPage(t, callback_error(sent[t], args[t]))
  /\ UNCHANGED <<flows, begun, code, cookie, table, answered, sent, args, page, fetching>>

AcceptCallback(t) ==
  /\ pc[t] = "callback"
  /\ callback_error(sent[t], args[t]) = NoError
  /\ Goto(t, "exchange")
  /\ Exchange!Begin(t)
  /\ UNCHANGED <<flows, begun, code, cookie, table, answered, sent, args, reply, page>>

\* The exchange of the code, as fetch() promises it.
Fetching(t) ==
  /\ pc[t] = "exchange"
  /\ UNCHANGED <<flows, begun, cookie, table, answered, pc, sent, args, reply, page>>

Request(t) ==
  /\ Fetching(t)
  /\ Exchange!Send(t) \/ Exchange!GiveUp(t)
  /\ UNCHANGED code

\* The provider redeems a code once.
Redeem(t) ==
  /\ Fetching(t)
  /\ code[args[t].state] = "issued"
  /\ code' = [code EXCEPT ![args[t].state] = "redeemed"]
  /\ Exchange!Receive(t, Granted)

RefuseCode(t) ==
  /\ Fetching(t)
  /\ code[args[t].state] # "issued"
  /\ Exchange!Receive(t, Refused)
  /\ UNCHANGED code

\* An answer that settles nothing; the code of a lost answer may be used up.
Trouble(t) ==
  /\ Fetching(t)
  /\ \E a \in Troubles :
       /\ Exchange!Receive(t, a)
       /\ \/ UNCHANGED code
          \/ a.status = NoStatus /\ code' = [code EXCEPT ![args[t].state] = "redeemed"]

Raise(t) ==
  /\ pc[t] = "exchange"
  /\ Exchange!Raise(t)
  /\ ErrorPage(t, "internal_error")
  /\ UNCHANGED <<flows, begun, code, cookie, table, answered, sent, args, page>>

-----------------------------------------------------------------------------
(* callback() after fetch() returned.                                      *)

Settled(t) == pc[t] = "exchange" /\ phase[t] = "returned"

ExchangeError(t) ==
  /\ Settled(t)
  /\ \/ /\ result[t].error # NoError
        /\ ErrorPage(t, normalize_error(result[t].error, TOKEN_ERRORS, "server_error"))
     \/ /\ result[t].error = NoError /\ ~validate_token(result[t])
        /\ ErrorPage(t, "invalid_response")
  /\ UNCHANGED <<flows, begun, code, cookie, table, answered, sent, args, page, fetching>>

GotToken(t) == Settled(t) /\ result[t].error = NoError /\ validate_token(result[t])

\* Mutant: INSERT OR REPLACE.
InsertOrReplace(t, id) ==
  /\ GotToken(t)
  /\ table' = [table EXCEPT ![id] = args[t].state]
  /\ Respond(t, "credentials", id, args[t].state, sent[t].client_state)
  /\ UNCHANGED <<flows, begun, code, cookie, answered, sent, args, page, fetching>>

Insert(t, id) ==
  /\ GotToken(t)
  /\ table[id] = NoFlow
  /\ table' = [table EXCEPT ![id] = args[t].state]
  /\ Respond(t, "credentials", id, args[t].state, sent[t].client_state)
  /\ UNCHANGED <<flows, begun, code, cookie, answered, sent, args, page, fetching>>

\* The id is taken, or the database fails.
InsertFails(t, id) ==
  /\ GotToken(t)
  /\ \/ table[id] # NoFlow /\ ErrorPage(t, "integrity_error")
     \/ ErrorPage(t, "internal_error")
  /\ UNCHANGED <<flows, begun, code, cookie, table, answered, sent, args, page, fetching>>

\* The request is over; what the handler knew is gone.
Forget(t) ==
  /\ Goto(t, "idle")
  /\ sent' = [sent EXCEPT ![t] = NoSession]
  /\ args' = [args EXCEPT ![t] = NoArgs]
  /\ reply' = [reply EXCEPT ![t] = Blank]
  /\ phase' = [phase EXCEPT ![t] = "idle"]
  /\ sends' = [sends EXCEPT ![t] = 0]
  /\ result' = [result EXCEPT ![t] = ErrorBody("server_error")]
  /\ UNCHANGED <<flows, begun, table>>

\* Mutant: the session is only read.
not_popped(session, current) == current

\* Flask deletes the cookie when callback() emptied the session it came with.
popped(session, current) == IF session = NoSession THEN current ELSE NoSession

Arrive(t) ==
  /\ pc[t] = "reply"
  /\ page' = [page EXCEPT ![t] =
       IF reply[t].what = "credentials" THEN reply[t] ELSE Failed]
  /\ cookie' = [cookie EXCEPT ![browser[t]] = popped(sent[t], @)]
  /\ answered' = answered \cup
       {n \in 1..flows : n = args[t].state /\ browser[begun[n]] = browser[t]}
  /\ Forget(t)
  /\ UNCHANGED code

\* The process dies, or the response is lost.  The provider may have got the
\* code.
Lose(t) ==
  /\ pc[t] \in {"callback", "exchange", "reply"}
  /\ page' = [page EXCEPT ![t] = Failed]
  /\ \/ UNCHANGED code
     \/ phase[t] = "sent" /\ code' = [code EXCEPT ![args[t].state] = "redeemed"]
  /\ Forget(t)
  /\ UNCHANGED <<cookie, answered>>

-----------------------------------------------------------------------------
Browse(t) ==
  RefuseAuthorize(t) \/ Authorize(t) \/ Consent(t) \/ OpenAgain(t) \/ OpenBare(t)

Provide(t) == Redeem(t) \/ RefuseCode(t) \/ Trouble(t) \/ Raise(t)

Handle(t) ==
  \/ Redirected(t) \/ RejectCallback(t) \/ AcceptCallback(t) \/ Request(t)
  \/ ExchangeError(t) \/ Arrive(t)
  \/ \E id \in ClientIds : Insert(t, id) \/ InsertFails(t, id)

Next ==
  /\ \E t \in Tabs : Browse(t) \/ Provide(t) \/ Handle(t) \/ Lose(t)
  /\ UNCHANGED browser

Spec == Init /\ [][Next]_vars

-----------------------------------------------------------------------------
TypeOK ==
  /\ browser \in [Tabs -> Browsers]
  /\ flows \in 0..MaxFlows
  /\ begun \in [Flows -> Tabs \cup {NoClient}]
  /\ code \in [Flows -> {"none", "issued", "redeemed"} \cup ProviderErrors]
  /\ cookie \in [Browsers -> Session]
  /\ table \in [ClientIds -> Flows \cup {NoFlow}]
  /\ answered \in SUBSET Flows
  /\ pc \in [Tabs -> {"idle", "redirect", "consent", "callback", "exchange", "reply"}]
  /\ sent \in [Tabs -> Session]
  /\ args \in [Tabs -> Args]
  /\ reply \in [Tabs -> Page]
  /\ page \in [Tabs -> Page]
  /\ phase \in [Tabs -> {"idle", "running", "sent", "returned", "raised"}]
  /\ sends \in [Tabs -> 0..(TotalRetries + 1)]

\* A browser is only shown the credentials of a grant whose flow it began, and
\* together with the client_state of that very flow, however its tabs overtake
\* each other and wherever callback URIs are opened (views.py:76-87, 163-165).
OwnFlow ==
  \A t \in Tabs : page[t].what = "credentials" =>
    /\ browser[begun[page[t].flow]] = browser[t]
    /\ page[t].client_state = begun[page[t].flow]

\* Credentials that are shown can be used: the row is there and stays there,
\* whatever ids are generated later (views.py:157-165).
ShownIsStored ==
  \A t \in Tabs : page[t].what = "credentials" => table[page[t].id] = page[t].flow

\* Every row is for a code the provider redeemed, and no code led to two, even
\* if the exchange is retried or two tabs exchange the same code
\* (views.py:113-150).
OneRowPerCode ==
  /\ \A id \in ClientIds : table[id] # NoFlow => code[table[id]] = "redeemed"
  /\ \A n \in Flows : Cardinality({id \in ClientIds : table[id] = n}) <= 1

\* Once a browser has got the response to its callback, its cookie no longer
\* lets the same URI through ("this page was probably refreshed",
\* views.py:84), whatever order responses arrive in.
SpentStateIsGone ==
  \A b \in Browsers : cookie[b].state \notin answered
=============================================================================
