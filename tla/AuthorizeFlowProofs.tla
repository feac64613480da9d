------------------------- MODULE AuthorizeFlowProofs -------------------------
(***************************************************************************)
(* Proofs about AuthorizeFlow, for any number of tabs, browsers and flows. *)
(* The invariant says what is known of a flow at each stage: a flow whose  *)
(* redirect is still on its way is known to nobody but its tab; a session  *)
(* names a flow of its own browser and that flow's client; and a token was *)
(* given for a code that nobody else has one for, and no row yet.          *)
(***************************************************************************)
EXTENDS AuthorizeFlow, FiniteSetTheorems, TLAPS

InCallback(t) == pc[t] \in {"callback", "exchange", "reply"}

\* Numbers that are mentioned anywhere are those of flows that began.
Numbered ==
  /\ \A n \in 1..flows : begun[n] \in Tabs
  /\ \A n \in Flows : code[n] # "none" => n <= flows
  /\ \A t \in Tabs : args[t].state <= flows
  /\ answered \subseteq 1..flows

\* A session in browser b is empty, or for a flow that one of its tabs began.
Genuine(s, b) ==
  \/ s = NoSession
  \/ /\ s.state \in 1..flows
     /\ browser[begun[s.state]] = b
     /\ s.client_state = begun[s.state]

Sessions ==
  /\ \A b \in Browsers : Genuine(cookie[b], b)
  /\ \A t \in Tabs : Genuine(sent[t], browser[t])

\* Until the user was asked, the provider has issued no code, and until the
\* redirect arrives, nobody but its tab has the state.
Pending ==
  \A t \in Tabs :
    /\ pc[t] \in {"redirect", "consent"} =>
         /\ args[t].state \in 1..flows
         /\ begun[args[t].state] = t
         /\ code[args[t].state] = "none"
    /\ pc[t] = "redirect" =>
         /\ sent[t].state = args[t].state
         /\ args[t].state \notin answered
         /\ \A b \in Browsers : cookie[b].state # args[t].state
         /\ \A u \in Tabs \ {t} : args[u].state # args[t].state

\* A browser does not get a state again that its request came without.
NotAgain ==
  \A t \in Tabs :
    InCallback(t) /\ args[t].state # NoFlow /\ sent[t].state # args[t].state =>
      cookie[browser[t]].state # args[t].state

\* A code is only exchanged in the session of its flow.
Calls ==
  /\ result = [t \in Tabs |-> result[t]]
  /\ \A t \in Tabs :
       /\ InCallback(t) /\ args[t].kind = "code" =>
            args[t].state \in Flows /\ code[args[t].state] # "none"
       /\ pc[t] = "exchange" =>
            args[t].kind = "code" /\ sent[t].state = args[t].state
       /\ phase[t] \in {"running", "sent"} =>
            pc[t] = "exchange" /\ result[t].error # NoError

\* Credentials, on their way or shown, are of a row whose flow the browser began.
Owned(p, b) ==
  p.what = "credentials" =>
    /\ p.id \in ClientIds
    /\ p.flow \in 1..flows
    /\ table[p.id] = p.flow
    /\ browser[begun[p.flow]] = b
    /\ p.client_state = begun[p.flow]

Shown == \A t \in Tabs : Owned(reply[t], browser[t]) /\ Owned(page[t], browser[t])

\* A token that has not been stored is the only one of its code.
Tokens ==
  /\ \A t \in Tabs : GotToken(t) =>
       /\ code[args[t].state] = "redeemed"
       /\ \A id \in ClientIds : table[id] # args[t].state
       /\ \A u \in Tabs \ {t} : GotToken(u) => args[u].state # args[t].state
  /\ \A id \in ClientIds : table[id] # NoFlow => code[table[id]] = "redeemed"
  /\ \A i, j \in ClientIds : table[i] # NoFlow /\ table[i] = table[j] => i = j

FlowInv ==
  /\ TypeOK /\ Numbered /\ Sessions /\ Pending /\ NotAgain /\ Calls /\ Shown /\ Tokens
  /\ SpentStateIsGone

LEMMA FlowInit == Init => FlowInv
  <1> SUFFICES ASSUME Init PROVE FlowInv
    OBVIOUS
  <1> USE AuthorizeFlowAssumption DEF Init, Flows, NoFlow
  <1>1. TypeOK
    BY DEF TypeOK, Session, NoSession, Args, NoArgs, Page, Blank, Exchange!Init
  <1>2. Numbered /\ Sessions /\ Pending /\ NotAgain /\ SpentStateIsGone
    BY DEF Numbered, Sessions, Genuine, Pending, NotAgain, InCallback, SpentStateIsGone,
           NoSession, NoArgs
  <1>3. Calls
    BY DEF Calls, InCallback, Exchange!Init
  <1>4. Shown /\ Tokens
    BY DEF Shown, Owned, Blank, Tokens, GotToken, Settled
  <1> QED
    BY <1>1, <1>2, <1>3, <1>4 DEF FlowInv

-----------------------------------------------------------------------------
(* What the steps have in common.                                          *)

\* The steps of the server and the provider leave to the browser what is its
\* own.
Serve(t) ==
  \/ RejectCallback(t) \/ AcceptCallback(t) \/ Request(t) \/ Provide(t)
  \/ ExchangeError(t) \/ \E id \in ClientIds : Insert(t, id) \/ InsertFails(t, id)

LEMMA Served ==
  ASSUME NEW t \in Tabs, Serve(t)
  PROVE  UNCHANGED <<flows, begun, cookie, answered, sent, args, page>>
  BY DEF Serve, Provide, RejectCallback, AcceptCallback, Request, Redeem, RefuseCode,
         Trouble, Raise, Fetching, ExchangeError, Insert, InsertFails

\* A callback is opened with the state of a flow that got past the provider,
\* or with the one in the cookie, or without any.
Open(t) == Consent(t) \/ OpenAgain(t) \/ OpenBare(t)

LEMMA Opened ==
  ASSUME FlowInv, NEW t \in Tabs, Open(t)
  PROVE  /\ pc[t] \in {"idle", "consent"}
         /\ code' \in [Flows -> {"none", "issued", "redeemed"} \cup ProviderErrors]
         /\ \A n \in Flows : code'[n] # code[n] =>
               /\ pc[t] = "consent" /\ n = args[t].state
               /\ code[n] = "none" /\ code'[n] # "none"
         /\ \E query \in Args :
              /\ OpenCallback(t, query)
              /\ \/ query.state \in Flows /\ code'[query.state] # "none"
                 \/ /\ query.state \in {cookie[browser[t]].state, NoFlow}
                    /\ query.kind # "code"
  <1> USE AuthorizeFlowAssumption DEF FlowInv, TypeOK
  <1>1. CASE Consent(t)
    <2> DEFINE n == args[t].state
    <2>1. n \in Flows /\ code[n] = "none" /\ pc[t] = "consent"
      BY <1>1 DEF Consent, Pending, Flows
    <2>2. PICK kind \in {"code"} \cup ProviderErrors :
            /\ OpenCallback(t, [state |-> n, kind |-> kind])
            /\ code' = [code EXCEPT ![n] = IF kind = "code" THEN "issued" ELSE kind]
      BY <1>1 DEF Consent
    <2>3. [state |-> n, kind |-> kind] \in Args
      BY <2>1 DEF Args
    <2>4. code'[n] # "none"
      BY <2>1, <2>2
    <2> QED
      BY <2>1, <2>2, <2>3, <2>4
  <1>2. CASE OpenAgain(t)
    <2>1. PICK n \in Flows :
            /\ code[n] # "none"
            /\ OpenCallback(t, [state |-> n, kind |-> IF code[n] \in ProviderErrors
                                                        THEN code[n] ELSE "code"])
      BY <1>2 DEF OpenAgain
    <2>2. [state |-> n, kind |-> IF code[n] \in ProviderErrors THEN code[n] ELSE "code"]
            \in Args
      BY DEF Args
    <2> QED
      BY <1>2, <2>1, <2>2 DEF OpenAgain
  <1>3. CASE OpenBare(t)
    <2>1. pc[t] = "idle" /\ code' = code
      BY <1>3 DEF OpenBare
    <2>2. NoArgs \in Args /\ NoArgs.state = NoFlow /\ NoArgs.kind # "code"
      BY DEF NoArgs, Args
    <2>3. [state |-> cookie[browser[t]].state, kind |-> "bare"] \in Args
      BY DEF Args, Session
    <2> QED
      BY <1>3, <2>1, <2>2, <2>3 DEF OpenBare
  <1> QED
    BY <1>1, <1>2, <1>3 DEF Open

\* Every step is one of these.
LEMMA Steps ==
  ASSUME Next
  PROVE  /\ browser' = browser
         /\ \E t \in Tabs :
              \/ RefuseAuthorize(t) \/ Authorize(t) \/ Redirected(t) \/ Open(t)
              \/ Serve(t) \/ Arrive(t) \/ Lose(t)
  BY DEF Next, Browse, Handle, Open, Serve

-----------------------------------------------------------------------------
(* Types.                                                                  *)

LEMMA Normalized ==
  ASSUME NEW error, NEW allowed \in {AUTHORIZATION_ERRORS, TOKEN_ERRORS}
  PROVE  normalize_error(error, allowed, "server_error") \in OAuthErrors
  BY DEF normalize_error, AUTHORIZATION_ERRORS, TOKEN_ERRORS, OAuthErrors

LEMMA ErrorPageType ==
  ASSUME TypeOK, NEW t \in Tabs, NEW error \in PageErrors, ErrorPage(t, error)
  PROVE  /\ pc' = [pc EXCEPT ![t] = "reply"]
         /\ reply' \in [Tabs -> Page]
         /\ reply' = [u \in Tabs |-> IF u = t THEN reply'[t] ELSE reply[u]]
         /\ reply'[t].what = error
  BY DEF TypeOK, ErrorPage, Respond, Goto, Page, Session

\* What a step of the server or the provider may do.
LEMMA ServeType ==
  ASSUME TypeOK, NEW t \in Tabs, Serve(t)
  PROVE  /\ code' \in [Flows -> {"none", "issued", "redeemed"} \cup ProviderErrors]
         /\ table' \in [ClientIds -> Flows \cup {NoFlow}]
         /\ pc' \in [Tabs -> {"idle", "redirect", "consent", "callback", "exchange", "reply"}]
         /\ reply' \in [Tabs -> Page]
         /\ phase' \in [Tabs -> {"idle", "running", "sent", "returned", "raised"}]
         /\ sends' \in [Tabs -> 0..(TotalRetries + 1)]
  <1> USE AuthorizeFlowAssumption DEF TypeOK
  <1>1. CASE RejectCallback(t)
    <2>1. callback_error(sent[t], args[t]) \in PageErrors
      BY <1>1, Normalized DEF RejectCallback, callback_error, PageErrors, OAuthErrors, NoError
    <2> QED
      BY <1>1, <2>1, ErrorPageType DEF RejectCallback, fetching
  <1>2. CASE AcceptCallback(t)
    BY <1>2 DEF AcceptCallback, Goto, Exchange!Begin
  <1>3. CASE Request(t)
    BY <1>3 DEF Request, Fetching, Exchange!Send, Exchange!GiveUp
  <1>4. CASE Redeem(t) \/ RefuseCode(t) \/ Trouble(t)
    BY <1>4 DEF Redeem, RefuseCode, Trouble, Fetching, Exchange!Receive
  <1>5. CASE Raise(t)
    BY <1>5, ErrorPageType DEF Raise, Exchange!Raise, PageErrors
  <1>6. CASE ExchangeError(t)
    <2>1. PICK error \in OAuthErrors : ErrorPage(t, error)
      BY <1>6, Normalized DEF ExchangeError, OAuthErrors
    <2> QED
      BY <1>6, <2>1, ErrorPageType DEF ExchangeError, PageErrors, fetching
  <1>7. ASSUME NEW id \in ClientIds, Insert(t, id)
        PROVE  /\ code' = code /\ phase' = phase /\ sends' = sends
               /\ table' \in [ClientIds -> Flows \cup {NoFlow}]
               /\ pc' = [pc EXCEPT ![t] = "reply"]
               /\ reply' \in [Tabs -> Page]
    BY <1>7 DEF Insert, Respond, Goto, Page, Session, Args, fetching
  <1>8. ASSUME NEW id \in ClientIds, InsertFails(t, id)
        PROVE  /\ code' = code /\ phase' = phase /\ sends' = sends /\ table' = table
               /\ pc' = [pc EXCEPT ![t] = "reply"]
               /\ reply' \in [Tabs -> Page]
    BY <1>8, ErrorPageType DEF InsertFails, PageErrors, fetching
  <1> QED
    BY <1>1, <1>2, <1>3, <1>4, <1>5, <1>6, <1>7, <1>8 DEF Serve, Provide

LEMMA Emptied == NoSession \in Session /\ NoArgs \in Args /\ {Blank, Failed} \subseteq Page
  BY DEF Session, NoSession, Args, NoArgs, Page, Blank, Failed

LEMMA TypeStep ==
  ASSUME FlowInv, [Next]_vars
  PROVE  TypeOK'
  <1> USE AuthorizeFlowAssumption DEF FlowInv
  <1>1. ASSUME NEW t \in Tabs, RefuseAuthorize(t), browser' = browser
        PROVE  TypeOK'
    BY <1>1, Emptied DEF RefuseAuthorize, TypeOK, fetching
  <1>2. ASSUME NEW t \in Tabs, Authorize(t), browser' = browser
        PROVE  TypeOK'
    <2>1. flows' \in Flows /\ flows' \in 0..MaxFlows
      BY <1>2 DEF Authorize, TypeOK, Flows
    <2> QED
      BY <1>2, <2>1, Emptied DEF Authorize, TypeOK, Goto, Args, Session, fetching
  <1>3. ASSUME NEW t \in Tabs, Redirected(t), browser' = browser
        PROVE  TypeOK'
    BY <1>3 DEF Redirected, TypeOK, Goto, fetching
  <1>4. ASSUME NEW t \in Tabs, Open(t), browser' = browser
        PROVE  TypeOK'
    BY <1>4, Opened, Emptied DEF OpenCallback, TypeOK, Goto, fetching
  <1>5. ASSUME NEW t \in Tabs, Serve(t), browser' = browser
        PROVE  TypeOK'
    BY <1>5, Served, ServeType DEF TypeOK
  <1>6. ASSUME NEW t \in Tabs, Arrive(t), browser' = browser
        PROVE  TypeOK'
    <2>1. cookie' \in [Browsers -> Session] /\ page' \in [Tabs -> Page]
      BY <1>6, Emptied DEF Arrive, popped, TypeOK
    <2>2. answered' \in SUBSET Flows
      <3>1. \A n \in 1..flows : n \in Flows
        BY DEF TypeOK, Flows
      <3>2. \A n \in answered' : n \in answered \/ n \in 1..flows
        BY <1>6 DEF Arrive
      <3> QED
        BY <3>1, <3>2 DEF TypeOK
    <2> QED
      BY <1>6, <2>1, <2>2, Emptied DEF Arrive, Forget, TypeOK, Goto
  <1>7. ASSUME NEW t \in Tabs, Lose(t), browser' = browser
        PROVE  TypeOK'
    BY <1>7, Emptied DEF Lose, Forget, TypeOK, Goto
  <1>8. CASE UNCHANGED vars
    BY <1>8 DEF vars, fetching, TypeOK
  <1> QED
    BY <1>1, <1>2, <1>3, <1>4, <1>5, <1>6, <1>7, <1>8, Steps

-----------------------------------------------------------------------------
(* Flows and sessions.                                                     *)

\* A new flow gets a number that was not used before.
LEMMA Authorized ==
  ASSUME FlowInv, NEW t \in Tabs, Authorize(t)
  PROVE  /\ flows' = flows + 1 /\ flows' \in Flows /\ begun'[flows'] = t
         /\ \A n \in 1..flows : n \in 1..flows' /\ begun'[n] = begun[n] /\ n # flows'
         /\ \A n \in 1..flows' : n \in 1..flows \/ n = flows'
  BY AuthorizeFlowAssumption DEF FlowInv, TypeOK, Authorize, Flows

LEMMA Exchanged ==
  ASSUME FlowInv, NEW t \in Tabs, Serve(t)
  PROVE  /\ pc[t] \in {"callback", "exchange"}
         /\ \E q \in {"exchange", "reply"} : pc' = [pc EXCEPT ![t] = q]
         /\ \A n \in Flows : code'[n] # code[n] =>
               pc[t] = "exchange" /\ n = args[t].state /\ code'[n] = "redeemed"
  <1> USE DEF FlowInv, TypeOK, Goto
  <1>1. CASE RejectCallback(t) \/ AcceptCallback(t)
    BY <1>1 DEF RejectCallback, AcceptCallback, ErrorPage, Respond
  <1>2. CASE Request(t) \/ Redeem(t) \/ RefuseCode(t) \/ Trouble(t)
    <2>1. pc[t] = "exchange" /\ pc' = [pc EXCEPT ![t] = "exchange"]
      BY <1>2 DEF Request, Redeem, RefuseCode, Trouble, Fetching
    <2>2. code' = code \/ code' = [code EXCEPT ![args[t].state] = "redeemed"]
      BY <1>2 DEF Request, Redeem, RefuseCode, Trouble
    <2> QED
      BY <2>1, <2>2
  <1>3. CASE Raise(t) \/ ExchangeError(t)
    BY <1>3 DEF Raise, ExchangeError, Settled, ErrorPage, Respond
  <1>4. ASSUME NEW id \in ClientIds, Insert(t, id) \/ InsertFails(t, id)
        PROVE  pc[t] = "exchange" /\ code' = code /\ pc' = [pc EXCEPT ![t] = "reply"]
    BY <1>4 DEF Insert, InsertFails, GotToken, Settled, ErrorPage, Respond
  <1> QED
    BY <1>1, <1>2, <1>3, <1>4 DEF Serve, Provide

LEMMA NumberedStep ==
  ASSUME FlowInv, [Next]_vars
  PROVE  Numbered'
  <1> USE AuthorizeFlowAssumption DEF FlowInv
  <1>1. ASSUME NEW t \in Tabs, RefuseAuthorize(t) \/ Redirected(t)
        PROVE  Numbered'
    BY <1>1 DEF RefuseAuthorize, Redirected, Numbered
  <1>2. ASSUME NEW t \in Tabs, Authorize(t)
        PROVE  Numbered'
    <2>1. \A u \in Tabs : args'[u].state <= flows'
      <3>1. args' = [args EXCEPT ![t] = [state |-> flows', kind |-> "none"]]
        BY <1>2 DEF Authorize
      <3>2. \A u \in Tabs : args[u].state \in Nat /\ args[u].state <= flows
        BY DEF Numbered, TypeOK, Args, Flows, NoFlow
      <3>3. args'[t].state = flows' /\ \A u \in Tabs \ {t} : args'[u] = args[u]
        BY <3>1 DEF TypeOK
      <3>4. flows' = flows + 1 /\ flows \in Nat
        BY <1>2, Authorized DEF TypeOK
      <3> QED
        BY <3>2, <3>3, <3>4
    <2>2. \A n \in Flows : code'[n] # "none" => n <= flows'
      BY <1>2, Authorized DEF Authorize, Numbered, TypeOK, Flows
    <2> QED
      BY <1>2, <2>1, <2>2, Authorized DEF Authorize, Numbered
  <1>3. ASSUME NEW t \in Tabs, Open(t), browser' = browser
        PROVE  Numbered'
    <2>1. PICK query \in Args :
            /\ OpenCallback(t, query)
            /\ \/ query.state \in Flows /\ code'[query.state] # "none"
               \/ /\ query.state \in {cookie[browser[t]].state, NoFlow}
                  /\ query.kind # "code"
      BY <1>3, Opened
    <2>2. \A n \in Flows : code'[n] # "none" => n <= flows
      BY <1>3, Opened DEF Numbered, Pending, TypeOK
    <2>3. query.state <= flows
      BY <2>1, <2>2
      DEF TypeOK, Sessions, Genuine, NoSession, NoFlow, Flows
    <2> QED
      BY <2>1, <2>2, <2>3 DEF OpenCallback, Numbered, TypeOK
  <1>4. ASSUME NEW t \in Tabs, Serve(t)
        PROVE  Numbered'
    <2>1. \A n \in Flows : code'[n] # "none" => n <= flows
      BY <1>4, Exchanged DEF Numbered, Calls, InCallback
    <2> QED
      BY <1>4, <2>1, Served DEF Numbered
  <1>5. ASSUME NEW t \in Tabs, Arrive(t)
        PROVE  Numbered'
    <2>1. \A u \in Tabs : args'[u].state <= flows
      BY <1>5 DEF Arrive, Forget, Numbered, TypeOK, NoArgs, NoFlow
    <2>2. \A n \in answered' : n \in answered \/ n \in 1..flows
      BY <1>5 DEF Arrive
    <2> QED
      BY <1>5, <2>1, <2>2 DEF Arrive, Forget, Numbered
  <1>6. ASSUME NEW t \in Tabs, Lose(t)
        PROVE  Numbered'
    <2>1. \A n \in Flows : code'[n] # "none" => n <= flows
      BY <1>6 DEF Lose, Numbered, Calls, InCallback, TypeOK
    <2> QED
      BY <1>6, <2>1 DEF Lose, Forget, Numbered, TypeOK, NoArgs, NoFlow
  <1>7. CASE UNCHANGED vars
    BY <1>7 DEF vars, Numbered
  <1> QED
    BY <1>1, <1>2, <1>3, <1>4, <1>5, <1>6, <1>7, Steps

LEMMA SessionsStep ==
  ASSUME FlowInv, [Next]_vars
  PROVE  Sessions'
  <1> USE AuthorizeFlowAssumption DEF FlowInv
  <1>1. ASSUME UNCHANGED <<browser, flows, begun>>,
               \A b \in Browsers : Genuine(cookie'[b], b),
               \A t \in Tabs : Genuine(sent'[t], browser[t])
        PROVE  Sessions'
    BY <1>1 DEF Sessions, Genuine
  <1>2. ASSUME NEW t \in Tabs, RefuseAuthorize(t) \/ Serve(t), browser' = browser
        PROVE  Sessions'
    BY <1>1, <1>2, Served DEF RefuseAuthorize, Sessions
  <1>3. ASSUME NEW t \in Tabs, Authorize(t), browser' = browser
        PROVE  Sessions'
    <2>1. \A b \in Browsers : Genuine(cookie[b], b)'
      <3> SUFFICES ASSUME NEW b \in Browsers PROVE Genuine(cookie[b], b)'
        OBVIOUS
      <3>1. cookie'[b] = cookie[b] /\ Genuine(cookie[b], b)
        BY <1>3 DEF Authorize, Sessions
      <3> QED
        BY <1>3, <3>1, Authorized DEF Genuine
    <2>2. \A u \in Tabs : Genuine(sent[u], browser[u])'
      <3> SUFFICES ASSUME NEW u \in Tabs PROVE Genuine(sent[u], browser[u])'
        OBVIOUS
      <3>1. CASE u = t
        BY <1>3, <3>1, Authorized DEF Authorize, TypeOK, Genuine, Flows
      <3>2. CASE u # t
        BY <1>3, <3>2, Authorized DEF Authorize, TypeOK, Sessions, Genuine
      <3> QED
        BY <3>1, <3>2
    <2> QED
      BY <2>1, <2>2 DEF Sessions
  <1>4. ASSUME NEW t \in Tabs, Redirected(t), browser' = browser
        PROVE  Sessions'
    BY <1>1, <1>4 DEF Redirected, Sessions, TypeOK
  <1>5. ASSUME NEW t \in Tabs, Open(t), browser' = browser
        PROVE  Sessions'
    <2>1. PICK query \in Args : OpenCallback(t, query)
      BY <1>5, Opened
    <2> QED
      BY <1>1, <1>5, <2>1 DEF OpenCallback, Sessions, TypeOK
  <1>6. ASSUME NEW t \in Tabs, Arrive(t) \/ Lose(t), browser' = browser
        PROVE  Sessions'
    <2>1. \A b \in Browsers : cookie'[b] \in {cookie[b], NoSession}
      BY <1>6 DEF Arrive, Lose, popped, TypeOK
    <2>2. \A u \in Tabs : sent'[u] \in {sent[u], NoSession}
      BY <1>6 DEF Arrive, Lose, Forget, TypeOK
    <2>3. UNCHANGED <<flows, begun>>
      BY <1>6 DEF Arrive, Lose, Forget
    <2> QED
      BY <1>1, <1>6, <2>1, <2>2, <2>3 DEF Sessions, Genuine
  <1>7. CASE UNCHANGED vars
    BY <1>1, <1>7 DEF vars, Sessions
  <1> QED
    BY <1>2, <1>3, <1>4, <1>5, <1>6, <1>7, Steps

\* What a tab does leaves the pending flows of the others alone.
LEMMA PendingKept ==
  ASSUME FlowInv, NEW t \in Tabs, NEW u \in Tabs \ {t}, UNCHANGED <<browser, flows, begun>>,
         pc'[u] = pc[u], sent'[u] = sent[u], \A v \in Tabs \ {t} : args'[v] = args[v],
         pc[u] \in {"redirect", "consent"} => code'[args[u].state] = "none",
         pc[u] = "redirect" => args'[t].state # args[u].state,
         \A n \in answered' : n \in answered \/ n = args[t].state,
         \A b \in Browsers : cookie'[b].state \in {cookie[b].state, NoFlow, args[t].state}
  PROVE  /\ pc'[u] \in {"redirect", "consent"} =>
              /\ args'[u].state \in 1..flows'
              /\ begun'[args'[u].state] = u
              /\ code'[args'[u].state] = "none"
         /\ pc'[u] = "redirect" =>
              /\ sent'[u].state = args'[u].state
              /\ args'[u].state \notin answered'
              /\ \A b \in Browsers : cookie'[b].state # args'[u].state
              /\ \A v \in Tabs \ {u} : args'[v].state # args'[u].state
  <1> USE DEF FlowInv
  <1>1. ASSUME pc[u] = "redirect"
        PROVE  /\ args[u].state \notin answered'
               /\ \A b \in Browsers : cookie'[b].state # args[u].state
               /\ \A v \in Tabs \ {u} : args'[v].state # args[u].state
    <2>1. /\ args[u].state \notin answered /\ args[u].state # NoFlow
          /\ \A b \in Browsers : cookie[b].state # args[u].state
          /\ \A v \in Tabs \ {u} : args[v].state # args[u].state
      BY <1>1 DEF Pending, NoFlow
    <2> QED
      BY <1>1, <2>1
  <1> QED
    BY <1>1 DEF Pending

LEMMA PendingStep ==
  ASSUME FlowInv, [Next]_vars
  PROVE  Pending'
  <1> USE AuthorizeFlowAssumption DEF FlowInv
  <1> DEFINE PendingOf(t) ==
         /\ pc[t] \in {"redirect", "consent"} =>
              /\ args[t].state \in 1..flows
              /\ begun[args[t].state] = t
              /\ code[args[t].state] = "none"
         /\ pc[t] = "redirect" =>
              /\ sent[t].state = args[t].state
              /\ args[t].state \notin answered
              /\ \A b \in Browsers : cookie[b].state # args[t].state
              /\ \A u \in Tabs \ {t} : args[u].state # args[t].state
  <1>1. ASSUME NEW t \in Tabs, RefuseAuthorize(t)
        PROVE  Pending'
    BY <1>1 DEF RefuseAuthorize, Pending
  <1>2. ASSUME NEW t \in Tabs, Authorize(t), browser' = browser
        PROVE  Pending'
    <2>1. /\ args'[t].state = flows' /\ sent'[t].state = flows' /\ pc'[t] = "redirect"
          /\ \A u \in Tabs \ {t} :
               args'[u] = args[u] /\ sent'[u] = sent[u] /\ pc'[u] = pc[u]
          /\ code' = code /\ cookie' = cookie /\ answered' = answered
      BY <1>2 DEF Authorize, Goto, TypeOK
    <2>2. /\ code[flows'] = "none" /\ flows' \notin answered
          /\ \A b \in Browsers : cookie[b].state # flows'
          /\ \A u \in Tabs : args[u].state # flows'
      <3>1. flows' = flows + 1 /\ flows \in Nat /\ flows' \in Flows
        BY <1>2, Authorized DEF TypeOK
      <3>2. \A b \in Browsers : cookie[b].state \in 0..flows
        BY <3>1 DEF Sessions, Genuine, NoSession, NoFlow
      <3>3. \A u \in Tabs : args[u].state \in Nat
        BY DEF TypeOK, Args, Flows, NoFlow
      <3> QED
        BY <3>1, <3>2, <3>3 DEF Numbered
    <2>3. PendingOf(t)'
      BY <1>2, <2>1, <2>2, Authorized DEF Flows
    <2>4. ASSUME NEW u \in Tabs \ {t}
          PROVE  PendingOf(u)'
      <3>1. ASSUME pc[u] \in {"redirect", "consent"}
            PROVE  args[u].state \in 1..flows' /\ begun'[args[u].state] = u
        BY <1>2, <3>1, Authorized DEF Pending
      <3> QED
        BY <2>1, <2>2, <3>1 DEF Pending
    <2> QED
      BY <2>3, <2>4 DEF Pending
  <1>3. ASSUME NEW t \in Tabs, Redirected(t), browser' = browser
        PROVE  Pending'
    <2>1. PendingOf(t)'
      BY <1>3 DEF Redirected, Goto, Pending, TypeOK
    <2>2. ASSUME NEW u \in Tabs \ {t}
          PROVE  PendingOf(u)'
      <3>1. \A b \in Browsers : cookie'[b].state \in {cookie[b].state, args[t].state}
        BY <1>3 DEF Redirected, Pending, TypeOK
      <3>2. pc'[u] = pc[u] /\ UNCHANGED <<flows, begun, code, answered, sent, args>>
        BY <1>3 DEF Redirected, Goto, TypeOK
      <3>3. /\ pc[u] \in {"redirect", "consent"} => code[args[u].state] = "none"
            /\ pc[u] = "redirect" => args[t].state # args[u].state
        BY DEF Pending
      <3> QED
        BY <1>3, <3>1, <3>2, <3>3, PendingKept
    <2> QED
      BY <2>1, <2>2 DEF Pending
  <1>4. ASSUME NEW t \in Tabs, Open(t), browser' = browser
        PROVE  Pending'
    <2>1. PICK query \in Args :
            /\ OpenCallback(t, query)
            /\ \/ query.state \in Flows /\ code'[query.state] # "none"
               \/ /\ query.state \in {cookie[browser[t]].state, NoFlow}
                  /\ query.kind # "code"
      BY <1>4, Opened
    <2>2. /\ UNCHANGED <<flows, begun, cookie, answered>>
          /\ pc'[t] = "callback" /\ args'[t] = query
          /\ \A u \in Tabs \ {t} :
               args'[u] = args[u] /\ sent'[u] = sent[u] /\ pc'[u] = pc[u]
      BY <2>1 DEF OpenCallback, Goto, TypeOK
    <2>3. \A n \in Flows : code'[n] # code[n] => pc[t] = "consent" /\ n = args[t].state
      BY <1>4, Opened
    <2>4. ASSUME NEW u \in Tabs \ {t}
          PROVE  PendingOf(u)'
      <3>1. ASSUME pc[u] \in {"redirect", "consent"}
            PROVE  code'[args[u].state] = "none"
        <4>1. /\ args[u].state \in Flows /\ code[args[u].state] = "none"
              /\ begun[args[u].state] = u
          BY <3>1 DEF Pending, TypeOK, Flows
        <4>2. pc[t] = "consent" => begun[args[t].state] = t
          BY DEF Pending
        <4> QED
          BY <2>3, <4>1, <4>2
      <3>2. ASSUME pc[u] = "redirect"
            PROVE  query.state # args[u].state
        <4>1. /\ args[u].state # NoFlow
              /\ \A b \in Browsers : cookie[b].state # args[u].state
          BY <3>2 DEF Pending, NoFlow
        <4>2. browser[t] \in Browsers
          BY DEF TypeOK
        <4> QED
          BY <2>1, <3>1, <3>2, <4>1, <4>2
      <3> QED
        BY <1>4, <2>2, <3>1, <3>2, PendingKept
    <2> QED
      BY <2>2, <2>4 DEF Pending
  <1>5. ASSUME NEW t \in Tabs, NEW q \in {"exchange", "reply", "idle"}, InCallback(t),
               UNCHANGED <<browser, flows, begun>>,
               pc' = [pc EXCEPT ![t] = q],
               \A b \in Browsers : cookie'[b].state \in {cookie[b].state, NoFlow},
               \A n \in answered' : n \in answered \/ n = args[t].state,
               args'[t].state \in {args[t].state, NoFlow},
               \A u \in Tabs \ {t} : args'[u] = args[u] /\ sent'[u] = sent[u],
               \A n \in Flows : code'[n] # code[n] =>
                 n = args[t].state /\ args[t].kind = "code"
        PROVE  Pending'
    <2>1. /\ pc'[t] \notin {"redirect", "consent"}
          /\ \A u \in Tabs \ {t} : pc'[u] = pc[u]
      BY <1>5 DEF TypeOK
    <2>2. ASSUME NEW u \in Tabs \ {t}
          PROVE  PendingOf(u)'
      <3>1. ASSUME pc[u] \in {"redirect", "consent"}, code'[args[u].state] # code[args[u].state]
            PROVE  FALSE
        <4>1. args[u].state \in Flows /\ code[args[u].state] = "none"
          BY <3>1 DEF Pending, TypeOK, Flows
        <4>2. args[t].state = args[u].state /\ args[t].kind = "code"
          BY <1>5, <3>1, <4>1
        <4> QED
          BY <1>5, <4>1, <4>2 DEF Calls
      <3>2. /\ pc[u] \in {"redirect", "consent"} => code'[args[u].state] = "none"
            /\ pc[u] = "redirect" => args'[t].state # args[u].state
        BY <1>5, <3>1 DEF Pending, NoFlow
      <3> QED
        BY <1>5, <2>1, <3>2, PendingKept
    <2> QED
      BY <2>1, <2>2 DEF Pending
  <1>6. ASSUME NEW t \in Tabs, Serve(t), browser' = browser
        PROVE  Pending'
    <2>1. InCallback(t)
      BY <1>6, Exchanged DEF InCallback
    <2>2. \A n \in Flows : code'[n] # code[n] =>
             n = args[t].state /\ args[t].kind = "code"
      BY <1>6, Exchanged DEF Calls
    <2> QED
      BY <1>5, <1>6, <2>1, <2>2, Served, Exchanged
  <1>7. ASSUME NEW t \in Tabs, Arrive(t) \/ Lose(t), browser' = browser
        PROVE  Pending'
    <2>1. \A b \in Browsers : cookie'[b].state \in {cookie[b].state, NoFlow}
      BY <1>7 DEF Arrive, Lose, popped, NoSession, TypeOK
    <2>2. /\ args'[t].state = NoFlow
          /\ \A u \in Tabs \ {t} : args'[u] = args[u] /\ sent'[u] = sent[u]
      BY <1>7 DEF Arrive, Lose, Forget, NoArgs, TypeOK
    <2>3. \A n \in Flows : code'[n] # code[n] =>
             n = args[t].state /\ args[t].kind = "code"
      BY <1>7 DEF Arrive, Lose, Calls, TypeOK
    <2>4. InCallback(t) /\ pc' = [pc EXCEPT ![t] = "idle"] /\ UNCHANGED <<flows, begun>>
      BY <1>7 DEF Arrive, Lose, Forget, Goto, InCallback
    <2>5. \A n \in answered' : n \in answered \/ n = args[t].state
      BY <1>7 DEF Arrive, Lose
    <2> QED
      BY <1>5, <1>7, <2>1, <2>2, <2>3, <2>4, <2>5
  <1>8. CASE UNCHANGED vars
    BY <1>8 DEF vars, Pending
  <1> QED
    BY <1>1, <1>2, <1>3, <1>4, <1>6, <1>7, <1>8, Steps

LEMMA NotAgainStep ==
  ASSUME FlowInv, [Next]_vars
  PROVE  NotAgain'
  <1> USE AuthorizeFlowAssumption DEF FlowInv
  <1>1. ASSUME NEW t \in Tabs, RefuseAuthorize(t), browser' = browser
        PROVE  NotAgain'
    BY <1>1 DEF RefuseAuthorize, NotAgain, InCallback
  <1>2. ASSUME NEW t \in Tabs, Authorize(t), browser' = browser
        PROVE  NotAgain'
    BY <1>2 DEF Authorize, Goto, NotAgain, InCallback, TypeOK
  <1>3. ASSUME NEW t \in Tabs, Redirected(t), browser' = browser
        PROVE  NotAgain'
    <2>1. /\ UNCHANGED <<sent, args>> /\ pc'[t] = "consent"
          /\ \A u \in Tabs \ {t} : pc'[u] = pc[u]
      BY <1>3 DEF Redirected, Goto, TypeOK
    <2>2. \A b \in Browsers : cookie'[b].state \in {cookie[b].state, args[t].state}
      BY <1>3 DEF Redirected, Pending, TypeOK
    <2>3. \A u \in Tabs \ {t} : args[u].state # args[t].state
      BY <1>3 DEF Redirected, Pending
    <2>4. \A u \in Tabs : browser[u] \in Browsers
      BY DEF TypeOK
    <2> QED
      BY <1>3, <2>1, <2>2, <2>3, <2>4 DEF NotAgain, InCallback
  <1>4. ASSUME NEW t \in Tabs, Open(t), browser' = browser
        PROVE  NotAgain'
    <2>1. PICK query \in Args : OpenCallback(t, query)
      BY <1>4, Opened
    <2> QED
      BY <1>4, <2>1 DEF OpenCallback, Goto, NotAgain, InCallback, TypeOK
  <1>5. ASSUME NEW t \in Tabs, Serve(t), browser' = browser
        PROVE  NotAgain'
    <2>1. \A u \in Tabs : InCallback(u)' => InCallback(u)
      BY <1>5, Exchanged DEF InCallback, TypeOK
    <2> QED
      BY <1>5, <2>1, Served DEF NotAgain
  <1>6. ASSUME NEW t \in Tabs, Arrive(t) \/ Lose(t), browser' = browser
        PROVE  NotAgain'
    <2>1. \A b \in Browsers : cookie'[b].state \in {cookie[b].state, NoFlow}
      BY <1>6 DEF Arrive, Lose, popped, NoSession, TypeOK
    <2>2. /\ pc'[t] = "idle"
          /\ \A u \in Tabs \ {t} :
               args'[u] = args[u] /\ sent'[u] = sent[u] /\ pc'[u] = pc[u]
      BY <1>6 DEF Arrive, Lose, Forget, Goto, TypeOK
    <2>3. \A u \in Tabs : browser[u] \in Browsers
      BY DEF TypeOK
    <2> QED
      BY <1>6, <2>1, <2>2, <2>3 DEF NotAgain, InCallback
  <1>7. CASE UNCHANGED vars
    BY <1>7 DEF vars, NotAgain, InCallback
  <1> QED
    BY <1>1, <1>2, <1>3, <1>4, <1>5, <1>6, <1>7, Steps

LEMMA SpentStep ==
  ASSUME FlowInv, [Next]_vars
  PROVE  SpentStateIsGone'
  <1> USE AuthorizeFlowAssumption DEF FlowInv
  <1>1. ASSUME UNCHANGED <<cookie, answered>>
        PROVE  SpentStateIsGone'
    BY <1>1 DEF SpentStateIsGone
  <1>2. ASSUME NEW t \in Tabs,
               RefuseAuthorize(t) \/ Authorize(t) \/ Open(t) \/ Serve(t) \/ Lose(t)
        PROVE  SpentStateIsGone'
    BY <1>1, <1>2, Served, Opened DEF RefuseAuthorize, Authorize, OpenCallback, Lose
  <1>3. ASSUME NEW t \in Tabs, Redirected(t)
        PROVE  SpentStateIsGone'
    <2>1. sent[t].state \notin answered /\ answered' = answered
      BY <1>3 DEF Redirected, Pending
    <2>2. \A b \in Browsers : cookie'[b] \in {cookie[b], sent[t]}
      BY <1>3 DEF Redirected, TypeOK
    <2> QED
      BY <2>1, <2>2 DEF SpentStateIsGone
  <1>4. ASSUME NEW t \in Tabs, Arrive(t)
        PROVE  SpentStateIsGone'
    <2>1. SUFFICES ASSUME NEW b \in Browsers, cookie'[b].state \in answered'
                   PROVE  FALSE
      BY DEF SpentStateIsGone
    <2>2. NoFlow \notin answered'
      BY <1>4 DEF Arrive, TypeOK, Flows, NoFlow
    <2>3. cookie'[b] = cookie[b] /\ (b = browser[t] => sent[t] = NoSession)
      BY <1>4, <2>1, <2>2 DEF Arrive, popped, NoSession, TypeOK
    <2>4. /\ cookie[b].state = args[t].state /\ args[t].state \in 1..flows
          /\ browser[begun[args[t].state]] = browser[t]
      BY <1>4, <2>1, <2>3 DEF Arrive, SpentStateIsGone
    <2>5. b = browser[t] /\ args[t].state # NoFlow
      BY <2>4 DEF Sessions, Genuine, NoSession, NoFlow
    <2>6. sent[t].state # args[t].state
      BY <2>3, <2>5 DEF NoSession
    <2> QED
      BY <1>4, <2>4, <2>5, <2>6 DEF Arrive, NotAgain, InCallback
  <1>5. CASE UNCHANGED vars
    BY <1>1, <1>5 DEF vars
  <1> QED
    BY <1>2, <1>3, <1>4, <1>5, Steps

-----------------------------------------------------------------------------
(* The exchange.                                                           *)

\* What callback() lets through.
LEMMA Accepted ==
  ASSUME TypeOK, NEW t \in Tabs, callback_error(sent[t], args[t]) = NoError
  PROVE  args[t].kind = "code" /\ sent[t].state = args[t].state
  <1>1. \A e : normalize_error(e, AUTHORIZATION_ERRORS, "server_error") # NoError
    BY Normalized DEF OAuthErrors, NoError
  <1>2. args[t].kind \in {"none", "code", "bare"} \cup ProviderErrors
    BY DEF TypeOK, Args
  <1> QED
    BY <1>1, <1>2 DEF callback_error, NoError

LEMMA CallsStep ==
  ASSUME FlowInv, [Next]_vars
  PROVE  Calls'
  <1> USE AuthorizeFlowAssumption DEF FlowInv
  <1>1. ASSUME NEW t \in Tabs, RefuseAuthorize(t)
        PROVE  Calls'
    BY <1>1 DEF RefuseAuthorize, Calls, InCallback, fetching
  <1>2. ASSUME NEW t \in Tabs, Authorize(t)
        PROVE  Calls'
    BY <1>2 DEF Authorize, Goto, Calls, InCallback, TypeOK, fetching
  <1>3. ASSUME NEW t \in Tabs, Redirected(t)
        PROVE  Calls'
    BY <1>3 DEF Redirected, Goto, Calls, InCallback, TypeOK, fetching
  <1>4. ASSUME NEW t \in Tabs, Open(t), browser' = browser
        PROVE  Calls'
    <2>1. PICK query \in Args :
            /\ OpenCallback(t, query)
            /\ \/ query.state \in Flows /\ code'[query.state] # "none"
               \/ /\ query.state \in {cookie[browser[t]].state, NoFlow}
                  /\ query.kind # "code"
      BY <1>4, Opened
    <2>2. /\ pc'[t] = "callback" /\ args'[t] = query
          /\ \A u \in Tabs \ {t} :
               args'[u] = args[u] /\ sent'[u] = sent[u] /\ pc'[u] = pc[u]
          /\ UNCHANGED <<phase, result>>
      BY <2>1 DEF OpenCallback, Goto, TypeOK, fetching
    <2>3. pc[t] \in {"idle", "consent"}
      BY <1>4, Opened
    <2>4. \A n \in Flows : code[n] # "none" => code'[n] # "none"
      BY <1>4, Opened
    <2> QED
      BY <2>1, <2>2, <2>3, <2>4 DEF Calls, InCallback
  <1>5. ASSUME NEW t \in Tabs, Serve(t)
        PROVE  Calls'
    <2>1. UNCHANGED <<sent, args>> /\ InCallback(t)
      BY <1>5, Served, Exchanged DEF InCallback
    <2>2. \A n \in Flows : code[n] # "none" => code'[n] # "none"
      BY <1>5, Exchanged
    <2>3. \A u \in Tabs \ {t} : pc'[u] = pc[u]
      BY <1>5, Exchanged DEF TypeOK
    <2>4. ASSUME UNCHANGED <<phase, result>>, phase[t] \notin {"running", "sent"},
                 pc'[t] = "reply"
          PROVE  Calls'
      BY <2>1, <2>2, <2>3, <2>4 DEF Calls, InCallback
    <2>5. CASE RejectCallback(t)
      <3>1. pc[t] = "callback" /\ pc'[t] = "reply" /\ UNCHANGED <<phase, result>>
        BY <2>5 DEF RejectCallback, ErrorPage, Respond, Goto, TypeOK, fetching
      <3>2. phase[t] \notin {"running", "sent"}
        BY <3>1 DEF Calls
      <3> QED
        BY <2>4, <3>1, <3>2
    <2>6. CASE AcceptCallback(t)
      <3>1. args[t].kind = "code" /\ sent[t].state = args[t].state
        BY <2>6, Accepted DEF AcceptCallback
      <3>2. /\ pc'[t] = "exchange" /\ result'[t].error # NoError
            /\ result' = [u \in Tabs |-> result'[u]]
            /\ \A u \in Tabs \ {t} : phase'[u] = phase[u] /\ result'[u] = result[u]
        BY <2>6
        DEF AcceptCallback, Goto, TypeOK, Calls, Exchange!Begin, Exchange!Unknown,
            Exchange!ErrorBody, NoError
      <3> QED
        BY <2>1, <2>2, <2>3, <3>1, <3>2 DEF Calls, InCallback
    <2>7. CASE Request(t) \/ Redeem(t) \/ RefuseCode(t) \/ Trouble(t)
      <3>1. pc[t] = "exchange" /\ pc' = pc
        BY <2>7 DEF Request, Redeem, RefuseCode, Trouble, Fetching
      <3>2. /\ result' = [u \in Tabs |-> result'[u]]
            /\ \A u \in Tabs \ {t} : phase'[u] = phase[u] /\ result'[u] = result[u]
            /\ phase'[t] \in {"running", "sent"} => result'[t].error # NoError
        <4>1. CASE Request(t)
          BY <2>7, <4>1 DEF Request, Exchange!Send, Exchange!GiveUp, Calls, TypeOK
        <4>2. ASSUME NEW a, Exchange!Receive(t, a)
              PROVE  /\ result' = [u \in Tabs |-> result'[u]]
                     /\ \A u \in Tabs \ {t} : phase'[u] = phase[u] /\ result'[u] = result[u]
                     /\ phase'[t] \in {"running", "sent"} => result'[t].error # NoError
          BY <4>2 DEF Exchange!Receive, Exchange!ErrorBody, Calls, TypeOK, NoError
        <4> QED
          BY <2>7, <4>1, <4>2 DEF Redeem, RefuseCode, Trouble
      <3> QED
        BY <2>1, <2>2, <3>1, <3>2 DEF Calls, InCallback
    <2>8. CASE Raise(t)
      <3>1. /\ pc'[t] = "reply" /\ result' = result /\ phase'[t] = "raised"
            /\ \A u \in Tabs \ {t} : phase'[u] = phase[u]
        BY <2>8 DEF Raise, Exchange!Raise, ErrorPage, Respond, Goto, TypeOK
      <3> QED
        BY <2>1, <2>2, <2>3, <3>1 DEF Calls, InCallback
    <2>9. CASE ExchangeError(t) \/ \E id \in ClientIds : Insert(t, id) \/ InsertFails(t, id)
      <3>1. phase[t] = "returned" /\ pc'[t] = "reply" /\ UNCHANGED <<phase, result>>
        BY <2>9
        DEF ExchangeError, Insert, InsertFails, GotToken, Settled, ErrorPage, Respond,
            Goto, TypeOK, fetching
      <3> QED
        BY <2>4, <3>1
    <2> QED
      BY <1>5, <2>5, <2>6, <2>7, <2>8, <2>9 DEF Serve, Provide
  <1>6. ASSUME NEW t \in Tabs, Arrive(t) \/ Lose(t)
        PROVE  Calls'
    <2>1. /\ pc'[t] = "idle" /\ phase'[t] = "idle"
          /\ result' = [u \in Tabs |-> result'[u]]
          /\ \A u \in Tabs \ {t} :
               /\ args'[u] = args[u] /\ sent'[u] = sent[u] /\ pc'[u] = pc[u]
               /\ phase'[u] = phase[u] /\ result'[u] = result[u]
      BY <1>6 DEF Arrive, Lose, Forget, Goto, TypeOK, Calls
    <2>2. \A n \in Flows : code[n] # "none" => code'[n] # "none"
      BY <1>6 DEF Arrive, Lose, TypeOK
    <2> QED
      BY <2>1, <2>2 DEF Calls, InCallback
  <1>7. CASE UNCHANGED vars
    BY <1>7 DEF vars, fetching, Calls, InCallback
  <1> QED
    BY <1>1, <1>2, <1>3, <1>4, <1>5, <1>6, <1>7, Steps

-----------------------------------------------------------------------------
(* Pages and rows.                                                         *)

LEMMA ShownStep ==
  ASSUME FlowInv, [Next]_vars
  PROVE  Shown'
  <1> USE AuthorizeFlowAssumption DEF FlowInv
  \* Flows that began, and rows, stay what they are.
  <1>1. ASSUME NEW t \in Tabs, browser' = browser,
               \A n \in 1..flows : n \in 1..flows' /\ begun'[n] = begun[n],
               \A id \in ClientIds : table[id] # NoFlow => table'[id] = table[id],
               \A u \in Tabs \ {t} : reply'[u] = reply[u] /\ page'[u] = page[u],
               Owned(reply[t], browser[t])', Owned(page[t], browser[t])'
        PROVE  Shown'
    <2>1. ASSUME NEW u \in Tabs \ {t}
          PROVE  Owned(reply[u], browser[u])' /\ Owned(page[u], browser[u])'
      <3>1. Owned(reply[u], browser[u]) /\ Owned(page[u], browser[u])
        BY DEF Shown
      <3>2. reply'[u] = reply[u] /\ page'[u] = page[u] /\ NoFlow \notin 1..flows
        BY <1>1 DEF NoFlow
      <3> QED
        BY <1>1, <3>1, <3>2 DEF Owned
    <2> QED
      BY <1>1, <2>1 DEF Shown
  <1>2. ASSUME NEW t \in Tabs, RefuseAuthorize(t), browser' = browser
        PROVE  Shown'
    BY <1>2 DEF RefuseAuthorize, Shown, Owned, TypeOK, Failed, Blank
  <1>3. ASSUME NEW t \in Tabs, Authorize(t), browser' = browser
        PROVE  Shown'
    <2>1. /\ UNCHANGED <<table, reply>> /\ page'[t].what # "credentials"
          /\ \A u \in Tabs \ {t} : page'[u] = page[u]
      BY <1>3 DEF Authorize, TypeOK, Blank
    <2>2. Owned(reply[t], browser[t])'
      BY <1>3, <2>1, Authorized DEF Shown, Owned
    <2>3. Owned(page[t], browser[t])'
      BY <2>1 DEF Owned
    <2> QED
      BY <1>1, <1>3, <2>1, <2>2, <2>3, Authorized
  <1>4. ASSUME NEW t \in Tabs, Redirected(t), browser' = browser
        PROVE  Shown'
    BY <1>4 DEF Redirected, Shown, Owned
  <1>5. ASSUME NEW t \in Tabs, Open(t), browser' = browser
        PROVE  Shown'
    <2>1. PICK query \in Args : OpenCallback(t, query)
      BY <1>5, Opened
    <2> QED
      BY <1>5, <2>1 DEF OpenCallback, Shown, Owned, TypeOK, Blank
  <1>6. ASSUME NEW t \in Tabs, Serve(t), browser' = browser
        PROVE  Shown'
    <2>1. UNCHANGED <<flows, begun, sent, args, page>>
      BY <1>6, Served
    <2>2. ASSUME UNCHANGED <<table, reply>>
          PROVE  Shown'
      BY <1>6, <2>1, <2>2 DEF Shown, Owned
    <2>3. ASSUME table' = table, NEW error \in PageErrors, ErrorPage(t, error)
          PROVE  Shown'
      <3>1. /\ reply'[t].what # "credentials"
            /\ \A u \in Tabs \ {t} : reply'[u] = reply[u]
        BY <2>3, ErrorPageType DEF PageErrors, OAuthErrors
      <3> QED
        BY <1>6, <2>1, <2>3, <3>1 DEF Shown, Owned
    <2>4. CASE RejectCallback(t)
      <3>1. callback_error(sent[t], args[t]) \in PageErrors
        BY <2>4, Normalized DEF RejectCallback, callback_error, PageErrors, OAuthErrors, NoError
      <3> QED
        BY <2>3, <2>4, <3>1 DEF RejectCallback
    <2>5. CASE AcceptCallback(t) \/ Request(t) \/ Redeem(t) \/ RefuseCode(t) \/ Trouble(t)
      BY <2>2, <2>5 DEF AcceptCallback, Request, Redeem, RefuseCode, Trouble, Fetching
    <2>6. CASE Raise(t)
      BY <2>3, <2>6 DEF Raise, PageErrors
    <2>7. CASE ExchangeError(t)
      <3>1. PICK error \in OAuthErrors : ErrorPage(t, error)
        BY <2>7, Normalized DEF ExchangeError, OAuthErrors
      <3> QED
        BY <2>3, <2>7, <3>1 DEF ExchangeError, PageErrors
    <2>8. ASSUME NEW id \in ClientIds, Insert(t, id)
          PROVE  Shown'
      <3>1. /\ sent[t].state = args[t].state /\ args[t].state \in Flows
            /\ table[id] = NoFlow
        BY <2>8 DEF Insert, GotToken, Settled, Calls, InCallback
      <3>2. /\ args[t].state \in 1..flows
            /\ browser[begun[args[t].state]] = browser[t]
            /\ sent[t].client_state = begun[args[t].state]
        BY <3>1 DEF Sessions, Genuine, NoSession, NoFlow, Flows
      <3>3. /\ reply'[t] = [what |-> "credentials", id |-> id, flow |-> args[t].state,
                            client_state |-> sent[t].client_state]
            /\ \A u \in Tabs \ {t} : reply'[u] = reply[u]
            /\ table' = [table EXCEPT ![id] = args[t].state]
        BY <2>8 DEF Insert, Respond, TypeOK
      <3>4. table'[id] = args[t].state /\ \A i \in ClientIds \ {id} : table'[i] = table[i]
        BY <3>3 DEF TypeOK
      <3>5. Owned(reply[t], browser[t])'
        BY <1>6, <2>1, <3>2, <3>3, <3>4 DEF Owned
      <3>6. Owned(page[t], browser[t])'
        <4>1. Owned(page[t], browser[t]) /\ page'[t] = page[t]
          BY <2>1 DEF Shown
        <4> QED
          BY <1>6, <2>1, <3>1, <3>4, <4>1 DEF Owned, NoFlow
      <3> QED
        BY <1>1, <1>6, <2>1, <3>1, <3>3, <3>4, <3>5, <3>6
    <2>9. ASSUME NEW id \in ClientIds, InsertFails(t, id)
          PROVE  Shown'
      BY <2>3, <2>9 DEF InsertFails, PageErrors
    <2> QED
      BY <1>6, <2>4, <2>5, <2>6, <2>7, <2>8, <2>9 DEF Serve, Provide
  <1>7. ASSUME NEW t \in Tabs, Arrive(t) \/ Lose(t), browser' = browser
        PROVE  Shown'
    <2>1. /\ UNCHANGED <<flows, begun, table>>
          /\ reply'[t].what # "credentials"
          /\ page'[t] = reply[t] \/ page'[t].what # "credentials"
          /\ \A u \in Tabs \ {t} : reply'[u] = reply[u] /\ page'[u] = page[u]
      BY <1>7 DEF Arrive, Lose, Forget, TypeOK, Failed, Blank
    <2> QED
      BY <1>7, <2>1 DEF Shown, Owned
  <1>8. CASE UNCHANGED vars
    BY <1>8 DEF vars, Shown, Owned
  <1> QED
    BY <1>2, <1>3, <1>4, <1>5, <1>6, <1>7, <1>8, Steps

\* A redeemed code stays redeemed.
LEMMA RedeemedStays ==
  ASSUME FlowInv, [Next]_vars, NEW n \in Flows, code[n] = "redeemed"
  PROVE  code'[n] = "redeemed"
  <1>1. ASSUME NEW t \in Tabs, Lose(t)
        PROVE  code'[n] = "redeemed"
    BY <1>1 DEF Lose, FlowInv, TypeOK
  <1>2. ASSUME NEW t \in Tabs, RefuseAuthorize(t) \/ Authorize(t) \/ Redirected(t) \/ Arrive(t)
        PROVE  code'[n] = "redeemed"
    BY <1>2 DEF RefuseAuthorize, Authorize, Redirected, Arrive
  <1>3. CASE UNCHANGED vars
    BY <1>3 DEF vars
  <1> QED
    BY <1>1, <1>2, <1>3, Steps, Opened, Exchanged

\* Only the tab whose code was redeemed can come to hold a token.
LEMMA TokenIsGranted ==
  ASSUME FlowInv, NEW t \in Tabs, Request(t) \/ RefuseCode(t) \/ Trouble(t)
  PROVE  ~GotToken(t)'
  <1> USE DEF FlowInv, TypeOK, Calls, GotToken, Settled
  <1>1. CASE Request(t)
    <2>1. phase[t] = "running" /\ result' = result
      BY <1>1 DEF Request, Exchange!Send, Exchange!GiveUp
    <2> QED
      BY <2>1
  <1>2. ASSUME NEW a, Exchange!Receive(t, a),
               retryable(a.status) \/ a.body.error # NoError \/ ~validate_token(a.body)
        PROVE  ~GotToken(t)'
    <2>1. result'[t] = IF retryable(a.status) THEN ErrorBody("temporarily_unavailable")
                                              ELSE a.body
      BY <1>2
      DEF Exchange!Receive, Exchange!retryable, retryable, Exchange!NoStatus, NoStatus,
          Exchange!ErrorBody, Exchange!NoToken, ErrorBody, NoToken
    <2> QED
      BY <1>2, <2>1 DEF ErrorBody, validate_token, NoError
  <1>3. CASE RefuseCode(t)
    <2>1. Refused.body.error # NoError
      BY DEF Refused, ErrorBody, NoError
    <2> QED
      BY <1>2, <1>3, <2>1 DEF RefuseCode
  <1>4. CASE Trouble(t)
    BY <1>2, <1>4, AuthorizeFlowAssumption DEF Trouble, retryable
  <1> QED
    BY <1>1, <1>3, <1>4

LEMMA TokensStep ==
  ASSUME FlowInv, [Next]_vars
  PROVE  Tokens'
  <1> USE DEF FlowInv
  <1>1. /\ \A u \in Tabs : GotToken(u) => args[u].state \in Flows
        /\ \A id \in ClientIds : table[id] # NoFlow => table[id] \in Flows
    BY DEF GotToken, Settled, Calls, InCallback, TypeOK
  <1>2. ASSUME table' = table,
               \A u \in Tabs : GotToken(u)' => GotToken(u) /\ args'[u] = args[u]
        PROVE  Tokens'
    BY <1>1, <1>2, RedeemedStays DEF Tokens
  <1>3. ASSUME NEW t \in Tabs, RefuseAuthorize(t)
        PROVE  Tokens'
    BY <1>2, <1>3 DEF RefuseAuthorize, GotToken, Settled, fetching
  <1>4. ASSUME NEW t \in Tabs, Authorize(t) \/ Redirected(t)
        PROVE  Tokens'
    BY <1>2, <1>4 DEF Authorize, Redirected, Goto, GotToken, Settled, TypeOK, fetching
  <1>5. ASSUME NEW t \in Tabs, Open(t)
        PROVE  Tokens'
    <2>1. PICK query \in Args : OpenCallback(t, query)
      BY <1>5, Opened
    <2> QED
      BY <1>2, <2>1 DEF OpenCallback, Goto, GotToken, Settled, TypeOK, fetching
  <1>6. ASSUME NEW t \in Tabs, Arrive(t) \/ Lose(t)
        PROVE  Tokens'
    BY <1>2, <1>6 DEF Arrive, Lose, Forget, Goto, GotToken, Settled, TypeOK, Calls
  <1>7. ASSUME NEW t \in Tabs, Serve(t)
        PROVE  Tokens'
    <2>1. /\ args' = args
          /\ \A u \in Tabs \ {t} : pc'[u] = pc[u]
      BY <1>7, Served, Exchanged DEF TypeOK
    <2>2. ASSUME table' = table, pc'[t] = "reply",
                 \A u \in Tabs \ {t} : phase'[u] = phase[u] /\ result'[u] = result[u]
          PROVE  Tokens'
      BY <1>2, <2>1, <2>2 DEF GotToken, Settled
    <2>3. CASE RejectCallback(t) \/ Raise(t) \/ ExchangeError(t)
                 \/ \E id \in ClientIds : InsertFails(t, id)
      BY <2>2, <2>3
      DEF RejectCallback, Raise, ExchangeError, InsertFails, ErrorPage, Respond, Goto,
          Exchange!Raise, fetching, TypeOK
    <2>4. CASE AcceptCallback(t)
      BY <1>2, <2>1, <2>4
      DEF AcceptCallback, Exchange!Begin, GotToken, Settled, TypeOK, Calls
    <2>5. ASSUME Request(t) \/ Redeem(t) \/ RefuseCode(t) \/ Trouble(t)
          PROVE  /\ table' = table
                 /\ \A u \in Tabs \ {t} : GotToken(u)' => GotToken(u)
      <3>1. /\ table' = table
            /\ \A u \in Tabs \ {t} : phase'[u] = phase[u] /\ result'[u] = result[u]
        BY <2>5
        DEF Request, Redeem, RefuseCode, Trouble, Fetching, Exchange!Send, Exchange!GiveUp,
            Exchange!Receive, TypeOK, Calls
      <3> QED
        BY <2>1, <3>1 DEF GotToken, Settled
    <2>6. CASE Request(t) \/ RefuseCode(t) \/ Trouble(t)
      BY <1>2, <2>1, <2>5, <2>6, TokenIsGranted
    <2>7. CASE Redeem(t)
      <3> DEFINE n == args[t].state
      <3>1. n \in Flows /\ code[n] = "issued" /\ code'[n] = "redeemed"
        BY <2>7 DEF Redeem, Fetching, Calls, InCallback, TypeOK
      <3>2. \A id \in ClientIds : table[id] # n
        BY <3>1 DEF Tokens, Flows, NoFlow
      <3>3. \A u \in Tabs \ {t} : GotToken(u)' => GotToken(u) /\ args[u].state # n
        BY <2>5, <2>7, <3>1 DEF Tokens
      <3> QED
        BY <1>1, <2>1, <2>5, <2>7, <3>1, <3>2, <3>3, RedeemedStays DEF Tokens
    <2>8. ASSUME NEW id \in ClientIds, Insert(t, id)
          PROVE  Tokens'
      <3> DEFINE n == args[t].state
      <3>1. /\ ~GotToken(t)'
            /\ \A u \in Tabs \ {t} : GotToken(u)' => GotToken(u)
        BY <2>1, <2>8 DEF Insert, Respond, Goto, GotToken, Settled, TypeOK, fetching
      <3>2. /\ n \in Flows /\ code[n] = "redeemed" /\ code'[n] = "redeemed"
            /\ \A i \in ClientIds : table[i] # n
            /\ \A u \in Tabs \ {t} : GotToken(u) => args[u].state # n
        BY <1>1, <2>8, RedeemedStays DEF Insert, Tokens
      <3>3. table'[id] = n /\ \A i \in ClientIds \ {id} : table'[i] = table[i]
        BY <2>8 DEF Insert, TypeOK
      <3>4. \A u \in Tabs : GotToken(u)' =>
              /\ code'[args'[u].state] = "redeemed"
              /\ \A i \in ClientIds : table'[i] # args'[u].state
              /\ \A v \in Tabs \ {u} : GotToken(v)' => args'[v].state # args'[u].state
        BY <1>1, <2>1, <3>1, <3>2, <3>3, RedeemedStays DEF Tokens
      <3>5. /\ \A i \in ClientIds : table'[i] # NoFlow => code'[table'[i]] = "redeemed"
            /\ \A i, j \in ClientIds : table'[i] # NoFlow /\ table'[i] = table'[j] => i = j
        BY <1>1, <3>2, <3>3, RedeemedStays DEF Tokens
      <3> QED
        BY <3>4, <3>5 DEF Tokens
    <2> QED
      BY <1>7, <2>3, <2>4, <2>6, <2>7, <2>8 DEF Serve, Provide
  <1>8. CASE UNCHANGED vars
    BY <1>2, <1>8 DEF vars, fetching, GotToken, Settled
  <1> QED
    BY <1>3, <1>4, <1>5, <1>6, <1>7, <1>8, Steps

-----------------------------------------------------------------------------
LEMMA FlowInvHolds == Spec => []FlowInv
  <1>1. FlowInv /\ [Next]_vars => FlowInv'
    BY TypeStep, NumberedStep, SessionsStep, PendingStep, NotAgainStep, CallsStep,
       ShownStep, TokensStep, SpentStep
    DEF FlowInv
  <1> QED
    BY <1>1, FlowInit, PTL DEF Spec

\* Every variable of the authorization flow keeps its type; in particular
\* every request, session and page names a flow and a client that exist.
THEOREM TypeCorrect == Spec => []TypeOK
  BY FlowInvHolds, PTL DEF FlowInv

\* Whatever the tabs and browsers do, credentials are shown to the browser
\* that began their flow, and with the client_state of that flow.
THEOREM CredentialsAreOwn == Spec => []OwnFlow
  <1>1. FlowInv => OwnFlow
    BY DEF FlowInv, Shown, Owned, OwnFlow
  <1> QED
    BY <1>1, FlowInvHolds, PTL

\* The row of credentials that are shown is in the table, and stays as it is.
THEOREM CredentialsAreStored == Spec => []ShownIsStored
  <1>1. FlowInv => ShownIsStored
    BY DEF FlowInv, Shown, Owned, ShownIsStored
  <1> QED
    BY <1>1, FlowInvHolds, PTL

\* A code that the provider redeems once leads to one row at most, however
\* often its exchange is tried, and nothing else leads to a row.
THEOREM CodesAreUsedOnce == Spec => []OneRowPerCode
  <1>1. ASSUME FlowInv, NEW n \in Flows
        PROVE  Cardinality({id \in ClientIds : table[id] = n}) <= 1
    <2> DEFINE rows == {id \in ClientIds : table[id] = n}
    <2>1. n # NoFlow
      BY DEF Flows, NoFlow
    <2>2. \A i, j \in rows : i = j
      BY <1>1, <2>1 DEF FlowInv, Tokens
    <2>3. CASE rows = {}
      BY <2>3, FS_EmptySet
    <2>4. CASE rows # {}
      <3>1. PICK i \in rows : TRUE
        BY <2>4
      <3>2. rows = {i}
        BY <2>2, <3>1
      <3> QED
        BY <3>2, FS_Singleton
    <2> QED
      BY <2>3, <2>4
  <1>2. FlowInv => OneRowPerCode
    BY <1>1 DEF FlowInv, Tokens, OneRowPerCode
  <1> QED
    BY <1>2, FlowInvHolds, PTL

\* After the response to its callback, a browser never again sends the state
\* of that flow, in whatever order its responses arrive.
THEOREM StatesAreSpent == Spec => []SpentStateIsGone
  BY FlowInvHolds, PTL DEF FlowInv
=============================================================================
