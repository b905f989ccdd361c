-------------------------- MODULE Credentials_proofs --------------------------
(***************************************************************************)
(* Credentials keeps the promise of SingleUse, and what the tokens were    *)
(* spent for, for any users, tokens, requests and clients.  The invariant  *)
(* RedeemInv says what the row locks and the marks are for: who holds a    *)
(* token's row holds it alone and unused, who took a token left it used.   *)
(* RefreshInv says who has the newest refresh token of a grant.            *)
(***************************************************************************)
EXTENDS Credentials, TLAPS

LEMMA SomeToken ==
  /\ (CHOOSE t \in Token : TRUE) \in Token
  /\ (CHOOSE e \in External : TRUE) \in External
  /\ (CHOOSE u \in User : TRUE) \in User
  BY CredentialsAssumption

LEMMA IdleTyped ==
  /\ Idle \in [pc : {"idle"}, token : Token, at : Kind, ext : External,
               seen : BOOLEAN, took : {FALSE}]
  /\ NoClient \in [pc : {"idle"}, user : User, held : Rows, gen : 0..MaxGen]
  BY SomeToken, CredentialsAssumption DEF Idle, NoClient, Kind, Rows

(* What update_tokens makes of a user's row is such a row again. *)
LEMMA UpdatedTyped ==
  ASSUME TypeOK, NEW c \in Client, NEW held \in Fields, NEW R \in Rows
  PROVE  {Updated(c, row, held) : row \in R} \in Rows
  <1>1. client[c].gen \in 0..MaxGen
    BY DEF TypeOK, Copy
  <1>2. \A row \in Fields : Updated(c, row, held) \in Fields
    BY <1>1 DEF Updated, Fields
  <1>3. CASE R = {}
    BY <1>3 DEF Rows
  <1>4. CASE R # {}
    <2>1. PICK f \in Fields : R = {f}
      BY <1>4 DEF Rows
    <2>2. {Updated(c, row, held) : row \in R} = {Updated(c, f, held)}
      BY <2>1
    <2>3. QED BY <1>2, <2>2 DEF Rows
  <1>5. QED BY <1>3, <1>4

LEMMA TypeInit == Init => TypeOK
  <1> SUFFICES ASSUME Init PROVE TypeOK
    OBVIOUS
  <1>1. PICK p \in Purposes :
          token = [t \in Token |-> [status |-> "none", kind |-> p[t].kind, user |-> p[t].user]]
    BY DEF Init
  <1>2. \A t \in Token : p[t].kind \in Kind /\ p[t].user \in User
    BY <1>1, CredentialsAssumption
  <1>3. token \in [Token -> TokenRow]
    BY <1>1, <1>2 DEF TokenRow
  <1>4. Idle \in Request /\ NoClient \in Copy
    BY IdleTyped DEF Request, Copy, Stage
  <1>5. QED BY <1>3, <1>4, CredentialsAssumption DEF Init, TypeOK, Rows

(* Whatever a token is issued for, only its row changes. *)
LEMMA Issued ==
  ASSUME NEW t \in Token, Issue(t)
  PROVE  /\ token[t].status = "none" /\ token' = [token EXCEPT ![t].status = "live"]
         /\ UNCHANGED <<attempt, account, external, workspace, link, client, newest,
                        strict, faults>>
  BY DEF Issue, NewToken, MailMagicLink, MintLinkToken, InstallUrl, ConnectUrl, refreshVars

(* What a step makes of one request, one token or one client is typed again. *)
LEMMA RequestMoved ==
  ASSUME NEW r \in Request, NEW s \in Stage
  PROVE  /\ [r EXCEPT !.pc = s] \in Request
         /\ [r EXCEPT !.pc = s, !.took = TRUE] \in Request
         /\ \A b \in BOOLEAN : [r EXCEPT !.pc = s, !.seen = b] \in Request
         /\ \A t \in Token, k \in Kind, e \in External :
               [r EXCEPT !.pc = s, !.token = t, !.at = k, !.ext = e] \in Request
  BY DEF Request

LEMMA TokenMoved ==
  ASSUME TypeOK, NEW t \in Token, NEW s \in {"none", "live", "used", "expired"},
         token' = [token EXCEPT ![t].status = s]
  PROVE  token' \in [Token -> TokenRow]
  <1>1. [token[t] EXCEPT !.status = s] \in TokenRow
    BY DEF TypeOK, TokenRow
  <1>2. QED BY <1>1 DEF TypeOK

(* Every step keeps every variable of Credentials in its type. *)
LEMMA TypeStep == ASSUME TypeOK, [Next]_vars PROVE TypeOK'
  <1> USE DEF vars, redeemVars, refreshVars
  <1>1. ASSUME NEW t \in Token, Issue(t) \/ Expire(t) PROVE TypeOK'
    <2>1. token' \in [Token -> TokenRow]
      BY <1>1, Issued, TokenMoved DEF Expire
    <2>2. QED BY <1>1, <2>1, Issued DEF Expire, TypeOK
  <1>2. ASSUME NEW a \in Attempt, Redeem(a) PROVE TypeOK'
    <2>0. attempt[a] \in Request /\ attempt[a].token \in Token /\ Row(a).user \in User
      BY DEF TypeOK, Request, Row, TokenRow
    <2>1. ASSUME NEW s \in Stage, To(a, s) PROVE attempt' \in [Attempt -> Request]
      BY <2>0, <2>1, RequestMoved DEF To, TypeOK
    <2>2. ASSUME Refused(a) PROVE attempt' \in [Attempt -> Request]
      BY <2>2, IdleTyped DEF Refused, TypeOK, Request, Stage
    <2>3. ASSUME NEW s \in Stage, attempt' = [attempt EXCEPT ![a].pc = s, ![a].took = TRUE]
          PROVE attempt' \in [Attempt -> Request]
      BY <2>0, <2>3, RequestMoved DEF TypeOK
    <2>4. ASSUME token' = [token EXCEPT ![attempt[a].token].status = "used"]
          PROVE token' \in [Token -> TokenRow]
      BY <2>0, <2>4, TokenMoved
    <2>5. Fault => faults' \in 0..MaxFaults
      BY CredentialsAssumption DEF Fault, TypeOK
    <2>6. ASSUME NEW t \in Token, NEW k \in Kind, NEW e \in External, Present(a, t, k, e)
          PROVE TypeOK'
      <3>1. attempt' \in [Attempt -> Request]
        <4>1. [attempt[a] EXCEPT !.pc = "presented", !.token = t, !.at = k, !.ext = e] \in Request
          BY <2>0, RequestMoved DEF Stage
        <4>2. QED BY <2>6, <4>1 DEF Present, TypeOK
      <3>2. QED BY <2>6, <3>1 DEF Present, TypeOK
    <2>7. CASE Select(a)
      <3>1. attempt' \in [Attempt -> Request]
        BY <2>1, <2>2, <2>7 DEF Select, Stage
      <3>2. QED BY <2>7, <3>1 DEF Select, TypeOK
    <2>8. CASE Consume(a)
      <3>1. attempt' \in [Attempt -> Request]
        BY <2>3, <2>8 DEF Consume, Stage
      <3>2. token' \in [Token -> TokenRow]
        BY <2>4, <2>8 DEF Consume
      <3>3. QED BY <2>8, <3>1, <3>2 DEF Consume, TypeOK
    <2>9. CASE LookUser(a)
      <3>1. [attempt[a] EXCEPT !.pc = "looked", !.seen = (Row(a).user \in account)] \in Request
        <4>1. (Row(a).user \in account) \in BOOLEAN
          OBVIOUS
        <4>2. "looked" \in Stage
          BY DEF Stage
        <4>3. QED BY <2>0, <4>1, <4>2, RequestMoved
      <3>2. attempt' \in [Attempt -> Request]
        BY <2>9, <3>1 DEF LookUser, TypeOK
      <3>3. QED BY <2>9, <3>2 DEF LookUser, TypeOK
    <2>10. CASE SignIn(a)
      <3>1. attempt' \in [Attempt -> Request]
        BY <2>2, <2>3, <2>10 DEF SignIn, Stage
      <3>2. token' \in [Token -> TokenRow]
        BY <2>4, <2>10 DEF SignIn, TypeOK
      <3>3. account' \subseteq User
        BY <2>0, <2>10 DEF SignIn, TypeOK
      <3>4. QED BY <2>10, <3>1, <3>2, <3>3 DEF SignIn, TypeOK
    <2>11. CASE Exchange(a)
      <3>1. attempt' \in [Attempt -> Request]
        BY <2>1, <2>11 DEF Exchange, Stage
      <3>2. faults' \in 0..MaxFaults
        BY <2>5, <2>11 DEF Exchange, TypeOK
      <3>3. QED BY <2>11, <3>1, <3>2 DEF Exchange, TypeOK
    <2>12. CASE Connect(a)
      <3>1. attempt' \in [Attempt -> Request]
        BY <2>1, <2>12 DEF Connect, Onboard, LinkInstaller, CreateLink, Stage
      <3>2. external' \in [External -> User \cup {NoUser}]
        BY <2>0, <2>12 DEF Connect, Onboard, LinkInstaller, CreateLink, TypeOK
      <3>3. QED BY <2>12, <3>1, <3>2 DEF Connect, Onboard, LinkInstaller, CreateLink, TypeOK
    <2>17. CASE InstallWorkspace(a)
      <3>1. attempt' \in [Attempt -> Request]
        BY <2>1, <2>17 DEF InstallWorkspace, Stage
      <3>2. QED BY <2>17, <3>1 DEF InstallWorkspace, TypeOK
    <2>13. CASE StoreGrant(a)
      <3>1. attempt' \in [Attempt -> Request]
        BY <2>1, <2>13 DEF StoreGrant, Upsert, Stage
      <3>2. {[access |-> a, grant |-> a, gen |-> 0]} \in Rows
        BY CredentialsAssumption DEF Rows, Fields
      <3>3. link' \in [User -> Rows]
        BY <2>13, <3>2 DEF StoreGrant, Upsert, TypeOK
      <3>4. QED BY <2>13, <3>1, <3>3 DEF StoreGrant, Upsert, TypeOK
    <2>14. CASE Break(a)
      <3>1. attempt' \in [Attempt -> Request]
        <4>1. To(a, "failed") \/ Refused(a)
          BY <2>14 DEF Break
        <4>2. QED BY <2>1, <2>2, <4>1 DEF Stage
      <3>2. faults' \in 0..MaxFaults
        BY <2>5, <2>14 DEF Break
      <3>3. QED BY <2>14, <3>1, <3>2 DEF Break, TypeOK
    <2>15. QED BY <1>2, <2>6, <2>7, <2>8, <2>9, <2>10, <2>11, <2>12, <2>17,
              <2>13, <2>14 DEF Redeem
  <1>3. ASSUME NEW u \in User, Disconnect(u) PROVE TypeOK'
    <2>1. {} \in Rows
      BY DEF Rows
    <2>2. link' \in [User -> Rows]
      BY <1>3, <2>1 DEF Disconnect, DeleteRow, TypeOK
    <2>3. QED BY <1>3, <2>2 DEF Disconnect, DeleteRow, TypeOK
  <1>4. ASSUME NEW c \in Client, UseLink(c) PROVE TypeOK'
    <2>0. /\ client[c] \in Copy /\ client[c].held \in Rows
          /\ client[c].user \in User /\ client[c].gen \in 0..MaxGen
      BY DEF TypeOK, Copy
    <2>1. ASSUME NEW u \in User, ForUser(c, u) PROVE TypeOK'
      <3>1. [client[c] EXCEPT !.pc = "holding", !.user = u, !.held = link[u]] \in Copy
        BY <2>0 DEF Copy, TypeOK
      <3>2. client' \in [Client -> Copy]
        BY <2>1, <3>1 DEF ForUser, TypeOK
      <3>3. QED BY <2>1, <3>2 DEF ForUser, TypeOK
    <2>2. CASE Refresh(c)
      <3>1. PICK row \in client[c].held :
              \/ client' = [client EXCEPT ![c].pc = "refreshed", ![c].gen = row.gen]
                 /\ UNCHANGED newest
              \/ /\ newest[row.grant] < MaxGen
                 /\ newest' = [newest EXCEPT ![row.grant] = newest[row.grant] + 1]
                 /\ client' = [client EXCEPT ![c].pc = "refreshed",
                                             ![c].gen = newest[row.grant] + 1]
        BY <2>2 DEF Refresh, KeepsToken, RotatesToken
      <3>2. row \in Fields
        BY <2>0, <3>1 DEF Rows
      <3>3. row.gen \in 0..MaxGen /\ newest[row.grant] \in 0..MaxGen
        BY <3>2 DEF Fields, TypeOK
      <3>4. \A g \in 0..MaxGen : [client[c] EXCEPT !.pc = "refreshed", !.gen = g] \in Copy
        BY <2>0 DEF Copy
      <3>5. newest[row.grant] < MaxGen => newest[row.grant] + 1 \in 0..MaxGen
        BY <3>3, CredentialsAssumption
      <3>6. \A g \in 0..MaxGen :
              [client EXCEPT ![c].pc = "refreshed", ![c].gen = g] \in [Client -> Copy]
        BY <3>4 DEF TypeOK
      <3>7. \E g \in 0..MaxGen : client' = [client EXCEPT ![c].pc = "refreshed", ![c].gen = g]
        <4>1. CASE newest' = newest
          BY <3>1, <3>3, <3>5
        <4>2. CASE newest' # newest
          BY <3>1, <3>5, <4>2
        <4>3. QED BY <4>1, <4>2
      <3>8. client' \in [Client -> Copy]
        BY <3>6, <3>7
      <3>9. newest' \in [Attempt -> 0..MaxGen]
        BY <3>1, <3>5 DEF TypeOK
      <3>10. QED BY <2>2, <3>8, <3>9 DEF Refresh, TypeOK
    <2>3. CASE UpdateTokens(c)
      <3>1. PICK held \in client[c].held :
              /\ link' = [link EXCEPT ![client[c].user] = {Updated(c, row, held) : row \in @}]
              /\ Hold(c, held)
        BY <2>3 DEF UpdateTokens
      <3>2. held \in Fields
        BY <2>0, <3>1 DEF Rows
      <3>3. link[client[c].user] \in Rows
        BY <2>0 DEF TypeOK
      <3>4. {Updated(c, row, held) : row \in link[client[c].user]} \in Rows
        BY <3>2, <3>3, UpdatedTyped
      <3>5. link' \in [User -> Rows]
        BY <3>1, <3>4 DEF TypeOK
      <3>6. {[access |-> held.grant, grant |-> held.grant, gen |-> client[c].gen]} \in Rows
        BY <2>0, <3>2 DEF Rows, Fields
      <3>7. [client[c] EXCEPT !.pc = "holding",
               !.held = {[access |-> held.grant, grant |-> held.grant,
                          gen |-> client[c].gen]}] \in Copy
        BY <2>0, <3>6 DEF Copy
      <3>8. client' \in [Client -> Copy]
        BY <3>1, <3>7 DEF Hold, TypeOK
      <3>9. QED BY <2>3, <3>5, <3>8 DEF UpdateTokens, TypeOK
    <2>4. CASE DropClient(c)
      <3>1. client' \in [Client -> Copy]
        BY <2>4, IdleTyped DEF DropClient, TypeOK, Copy
      <3>2. faults' \in 0..MaxFaults
        BY <2>4, CredentialsAssumption DEF DropClient, Fault, TypeOK
      <3>3. QED BY <2>4, <3>1, <3>2 DEF DropClient, TypeOK
    <2>5. QED BY <1>4, <2>1, <2>2, <2>3, <2>4 DEF UseLink
  <1>5. CASE UNCHANGED vars
    BY <1>5 DEF TypeOK
  <1>6. QED BY <1>1, <1>2, <1>3, <1>4, <1>5 DEF Next

(* Every variable keeps its type. *)
THEOREM TypeCorrect == Spec => []TypeOK
  <1>1. QED BY TypeInit, TypeStep, PTL DEF Spec

-----------------------------------------------------------------------------
(* What the locks and the marks are for.  A request that holds a row holds  *)
(* it alone, and the row is not used; a request that took a token found it  *)
(* so and left it used, and none gets on without.                           *)
Holds(a) == attempt[a].pc \in {"locked", "looked"}

HeldAlone ==
  \A a, b \in Attempt :
    Holds(a) /\ Holds(b) /\ attempt[a].token = attempt[b].token => a = b

HeldIsUnused ==
  \A a \in Attempt : Holds(a) => ~attempt[a].took /\ Row(a).status # "used"

TakenIsUsed ==
  \A a \in Attempt :
    /\ attempt[a].took => Row(a).status = "used" /\ attempt[a].pc \notin {"idle", "presented"}
    /\ attempt[a].pc \in {"taken", "exchanged", "installed"} => attempt[a].took

RedeemInv == TypeOK /\ HeldAlone /\ HeldIsUnused /\ TakenIsUsed

LEMMA RedeemInit == Init => RedeemInv /\ Once!Init
  <1> SUFFICES ASSUME Init PROVE RedeemInv /\ Once!Init
    OBVIOUS
  <1>1. \A a \in Attempt : attempt[a].pc = "idle" /\ attempt[a].took = FALSE
    BY DEF Init, Idle
  <1>2. HeldAlone /\ HeldIsUnused /\ TakenIsUsed
    BY <1>1 DEF HeldAlone, HeldIsUnused, TakenIsUsed, Holds
  <1>3. takers = [t \in Token |-> {}]
    BY <1>1 DEF takers
  <1>4. QED BY <1>2, <1>3, TypeInit DEF RedeemInv, Once!Init

(* A step that leaves requests and tokens alone keeps all that is said of   *)
(* them.                                                                    *)
LEMMA Elsewhere ==
  ASSUME RedeemInv, TypeOK', UNCHANGED <<token, attempt>>
  PROVE  RedeemInv' /\ UNCHANGED takers
  BY DEF RedeemInv, HeldAlone, HeldIsUnused, TakenIsUsed, Holds, Row, takers

(* A request that does not hold a row and took nothing moves on.            *)
LEMMA TakesNothing ==
  ASSUME RedeemInv, TypeOK', NEW a \in Attempt, NEW r \in Request, token' = token,
         attempt' = [attempt EXCEPT ![a] = r],
         ~attempt[a].took, ~r.took, r.pc \notin {"taken", "exchanged", "installed"},
         r.pc \notin {"locked", "looked"} \/ (Holds(a) /\ r.token = attempt[a].token)
  PROVE  RedeemInv' /\ UNCHANGED takers
  <1>1. attempt'[a] = r /\ \A b \in Attempt \ {a} : attempt'[b] = attempt[b]
    BY DEF RedeemInv, TypeOK
  <1>2. HeldAlone'
    BY <1>1 DEF RedeemInv, HeldAlone, Holds
  <1>3. HeldIsUnused'
    BY <1>1 DEF RedeemInv, HeldIsUnused, Holds, Row
  <1>4. TakenIsUsed'
    BY <1>1 DEF RedeemInv, TakenIsUsed, Row
  <1>5. takers' = takers
    BY <1>1 DEF takers
  <1>6. QED BY <1>2, <1>3, <1>4, <1>5 DEF RedeemInv

(* A request that took its token goes on: the token stays taken by it.      *)
LEMMA GoesOn ==
  ASSUME RedeemInv, TypeOK', NEW a \in Attempt, NEW s \in {"exchanged", "installed", "done", "failed"},
         attempt[a].took, token' = token, To(a, s)
  PROVE  RedeemInv' /\ UNCHANGED takers
  <1>0. attempt[a] \in Request
    BY DEF RedeemInv, TypeOK
  <1>1. /\ attempt'[a] = [attempt[a] EXCEPT !.pc = s]
        /\ \A b \in Attempt \ {a} : attempt'[b] = attempt[b]
    BY DEF RedeemInv, TypeOK, To
  <1>2. /\ attempt'[a].pc = s /\ attempt'[a].token = attempt[a].token
        /\ attempt'[a].took = attempt[a].took
    BY <1>0, <1>1 DEF Request
  <1>3. HeldAlone'
    BY <1>1, <1>2 DEF RedeemInv, HeldAlone, Holds
  <1>4. HeldIsUnused'
    BY <1>1, <1>2 DEF RedeemInv, HeldIsUnused, Holds, Row
  <1>5. TakenIsUsed'
    <2> SUFFICES ASSUME NEW b \in Attempt
        PROVE  /\ attempt'[b].took => /\ token'[attempt'[b].token].status = "used"
                                      /\ attempt'[b].pc \notin {"idle", "presented"}
               /\ attempt'[b].pc \in {"taken", "exchanged", "installed"} => attempt'[b].took
      BY DEF TakenIsUsed, Row
    <2>1. CASE b = a
      BY <1>2, <2>1 DEF RedeemInv, TakenIsUsed, Row
    <2>2. CASE b # a
      BY <1>1, <2>2 DEF RedeemInv, TakenIsUsed, Row
    <2>3. QED BY <2>1, <2>2
  <1>6. takers' = takers
    <2>1. \A b \in Attempt : /\ attempt'[b].token = attempt[b].token
                             /\ attempt'[b].took = attempt[b].took
      BY <1>1, <1>2
    <2>2. QED BY <2>1 DEF takers
  <1>7. QED BY <1>3, <1>4, <1>5, <1>6 DEF RedeemInv

(* The request that holds the row marks it and takes the token.             *)
LEMMA TakesIt ==
  ASSUME RedeemInv, TypeOK', NEW a \in Attempt, NEW s \in {"taken", "done"}, Holds(a),
         token' = [token EXCEPT ![attempt[a].token].status = "used"],
         attempt' = [attempt EXCEPT ![a].pc = s, ![a].took = TRUE]
  PROVE  RedeemInv' /\ Once!Take(attempt[a].token, a)
  <1> DEFINE t == attempt[a].token
  <1>0. attempt[a] \in Request /\ t \in Token /\ token \in [Token -> TokenRow]
    BY DEF RedeemInv, TypeOK, Request
  <1>1. /\ attempt'[a] = [attempt[a] EXCEPT !.pc = s, !.took = TRUE]
        /\ \A b \in Attempt \ {a} : attempt'[b] = attempt[b]
    BY DEF RedeemInv, TypeOK
  <1>2. attempt'[a].pc = s /\ attempt'[a].token = t /\ attempt'[a].took
    <2>1. attempt'[a].pc = s
      BY <1>0, <1>1 DEF Request
    <2>2. "took" \in DOMAIN attempt[a] /\ "token" \in DOMAIN attempt[a]
      BY <1>0 DEF Request
    <2>3. attempt'[a].token = attempt[a].token
      BY <1>1, <2>2
    <2>4. attempt'[a].took = TRUE
      BY <1>1, <2>2
    <2>5. QED BY <2>1, <2>3, <2>4
  <1>3. /\ token'[t].status = "used"
        /\ \A v \in Token \ {t} : token'[v] = token[v]
    BY <1>0 DEF TokenRow
  <1>4. \A b \in Attempt : attempt[b].token = t => ~attempt[b].took
    BY DEF RedeemInv, HeldIsUnused, TakenIsUsed, Row
  <1>5. \A b \in Attempt \ {a} : Holds(b) => attempt[b].token # t
    BY DEF RedeemInv, HeldAlone
  <1>6. \A b \in Attempt : attempt[b].token \in Token
    BY DEF RedeemInv, TypeOK, Request
  <1>7. HeldAlone'
    <2> SUFFICES ASSUME NEW b \in Attempt, NEW c \in Attempt, Holds(b)', Holds(c)',
                        attempt'[b].token = attempt'[c].token
                 PROVE  b = c
      BY DEF HeldAlone
    <2>1. b # a /\ c # a
      BY <1>2 DEF Holds
    <2>2. attempt'[b] = attempt[b] /\ attempt'[c] = attempt[c]
      BY <1>1, <2>1
    <2>3. Holds(b) /\ Holds(c)
      BY <2>2 DEF Holds
    <2>4. QED BY <2>2, <2>3 DEF RedeemInv, HeldAlone
  <1>8. HeldIsUnused'
    <2> SUFFICES ASSUME NEW b \in Attempt, Holds(b)'
                 PROVE ~attempt'[b].took /\ token'[attempt'[b].token].status # "used"
      BY DEF HeldIsUnused, Row
    <2>1. b # a
      BY <1>2 DEF Holds
    <2>2. Holds(b)
      BY <1>1, <2>1 DEF Holds
    <2>3. attempt'[b] = attempt[b] /\ token'[attempt[b].token] = token[attempt[b].token]
      BY <1>1, <1>3, <1>5, <1>6, <2>1, <2>2
    <2>4. QED BY <2>2, <2>3 DEF RedeemInv, HeldIsUnused, Row
  <1>9. TakenIsUsed'
    <2> SUFFICES ASSUME NEW b \in Attempt
        PROVE  /\ attempt'[b].took => /\ token'[attempt'[b].token].status = "used"
                                      /\ attempt'[b].pc \notin {"idle", "presented"}
               /\ attempt'[b].pc \in {"taken", "exchanged", "installed"} => attempt'[b].took
      BY DEF TakenIsUsed, Row
    <2>1. CASE b = a
      BY <1>2, <1>3, <2>1
    <2>2. CASE b # a
      <3>1. attempt'[b] = attempt[b]
        BY <1>1, <2>2
      <3>2. attempt[b].took => token'[attempt[b].token] = token[attempt[b].token]
        BY <1>3, <1>4, <1>6
      <3>3. QED BY <3>1, <3>2 DEF RedeemInv, TakenIsUsed, Row
    <2>3. QED BY <2>1, <2>2
  <1>10. takers[t] = {}
    BY <1>0, <1>4 DEF takers
  <1>11. takers' = [takers EXCEPT ![t] = {a}]
    <2>0. \A b \in Attempt \ {a} : /\ attempt'[b].token = attempt[b].token
                                   /\ attempt'[b].took = attempt[b].took
      BY <1>1
    <2>1. ASSUME NEW v \in Token
          PROVE  {b \in Attempt : attempt'[b].token = v /\ attempt'[b].took}
                   = IF v = t THEN {a} ELSE {b \in Attempt : attempt[b].token = v /\ attempt[b].took}
      <3>1. CASE v = t
        <4>1. \A b \in Attempt : attempt'[b].token = v /\ attempt'[b].took => b = a
          BY <1>4, <2>0, <3>1
        <4>2. attempt'[a].token = v /\ attempt'[a].took
          BY <1>2, <3>1
        <4>3. QED BY <3>1, <4>1, <4>2
      <3>2. CASE v # t
        BY <1>2, <2>0, <3>2
      <3>3. QED BY <3>1, <3>2
    <2>2. QED BY <2>1 DEF takers
  <1>12. QED BY <1>7, <1>8, <1>9, <1>10, <1>11 DEF RedeemInv, Once!Take

(* Every step keeps the invariant, and is a step of SingleUse or leaves its *)
(* variable as it is.                                                       *)
LEMMA RedeemStep ==
  ASSUME RedeemInv, [Next]_vars
  PROVE  RedeemInv' /\ [Once!Next]_takers
  <1>0. TypeOK /\ TypeOK'
    BY TypeStep DEF RedeemInv
  <1>1. ASSUME NEW t \in Token, Issue(t) \/ Expire(t)
        PROVE  RedeemInv' /\ UNCHANGED takers
    <2>1. attempt' = attempt
      BY <1>1, Issued DEF Expire
    <2>2. \A a \in Attempt : attempt[a].token \in Token
      BY <1>0 DEF TypeOK, Request
    <2>3. PICK s \in {"live", "expired"} : token' = [token EXCEPT ![t].status = s]
      BY <1>1, Issued DEF Expire
    <2>4. token[t].status # "used"
      BY <1>1, Issued DEF Expire
    <2>5. \A v \in Token : (token[v].status = "used") <=> (token'[v].status = "used")
      BY <1>0, <2>3, <2>4 DEF TypeOK, TokenRow
    <2>6. \A a \in Attempt : (Row(a).status = "used") <=> (token'[attempt'[a].token].status = "used")
      BY <2>1, <2>2, <2>5 DEF Row
    <2>7. HeldAlone'
      BY <2>1 DEF RedeemInv, HeldAlone, Holds
    <2>8. HeldIsUnused' /\ TakenIsUsed'
      BY <2>1, <2>6 DEF RedeemInv, HeldIsUnused, TakenIsUsed, Holds, Row
    <2>9. QED BY <1>0, <2>1, <2>7, <2>8 DEF RedeemInv, takers
  <1>2. ASSUME NEW a \in Attempt, Redeem(a)
        PROVE  RedeemInv' /\ (UNCHANGED takers \/ Once!Next)
    <2>0. attempt[a] \in Request /\ attempt[a].token \in Token
      BY <1>0 DEF TypeOK, Request
    <2>1. ASSUME Refused(a), token' = token, ~attempt[a].took
          PROVE  RedeemInv' /\ UNCHANGED takers
      <3> DEFINE r == [Idle EXCEPT !.pc = "failed"]
      <3>1. r \in Request /\ r.pc = "failed" /\ ~r.took
        BY IdleTyped DEF Request, Stage
      <3>2. QED BY <1>0, <2>1, <3>1, TakesNothing DEF Refused
    <2>2. ASSUME NEW t \in Token, NEW k \in Kind, NEW e \in External, Present(a, t, k, e)
          PROVE  RedeemInv' /\ UNCHANGED takers
      <3> DEFINE r == [attempt[a] EXCEPT !.pc = "presented", !.token = t, !.at = k, !.ext = e]
      <3>1. r \in Request
        BY <2>0, RequestMoved DEF Stage
      <3>2. ~attempt[a].took
        BY <2>2 DEF RedeemInv, TakenIsUsed, Present, In
      <3>3. r.pc = "presented" /\ ~r.took
        BY <2>0, <3>2 DEF Request
      <3>4. attempt' = [attempt EXCEPT ![a] = r] /\ token' = token
        BY <2>2 DEF Present
      <3>5. QED BY <1>0, <3>1, <3>2, <3>3, <3>4, TakesNothing
    <2>3. CASE Select(a)
      <3>1. ~attempt[a].took /\ token' = token
        BY <2>3 DEF RedeemInv, TakenIsUsed, Select, In
      <3>2. CASE Refused(a)
        BY <2>1, <3>1, <3>2
      <3>3. CASE To(a, "locked") /\ Row(a).status = "live"
        <4>1. /\ attempt'[a] = [attempt[a] EXCEPT !.pc = "locked"]
              /\ \A b \in Attempt \ {a} : attempt'[b] = attempt[b]
          BY <1>0, <3>3 DEF To, TypeOK
        <4>2. /\ attempt'[a].pc = "locked" /\ attempt'[a].token = attempt[a].token
              /\ attempt'[a].took = attempt[a].took
          BY <2>0, <4>1 DEF Request
        <4>3. \A b \in Attempt : Holds(b) => attempt[b].token # attempt[a].token
          BY <2>3 DEF Select, Locked, Holds
        <4>4. HeldAlone'
          <5>1. \A b \in Attempt \ {a} : Holds(b)' <=> Holds(b)
            BY <4>1 DEF Holds
          <5>2. \A b \in Attempt \ {a} : Holds(b)' => attempt'[b].token # attempt'[a].token
            BY <4>1, <4>2, <4>3, <5>1
          <5>3. \A b, d \in Attempt \ {a} :
                  Holds(b)' /\ Holds(d)' /\ attempt'[b].token = attempt'[d].token => b = d
            BY <4>1, <5>1 DEF RedeemInv, HeldAlone
          <5>4. QED BY <5>2, <5>3 DEF HeldAlone
        <4>5. HeldIsUnused'
          <5> SUFFICES ASSUME NEW b \in Attempt, Holds(b)'
                       PROVE ~attempt'[b].took /\ token'[attempt'[b].token].status # "used"
            BY DEF HeldIsUnused, Row
          <5>1. CASE b = a
            BY <3>1, <3>3, <4>2, <5>1 DEF Row
          <5>2. CASE b # a
            BY <3>1, <4>1, <5>2 DEF RedeemInv, HeldIsUnused, Holds, Row
          <5>3. QED BY <5>1, <5>2
        <4>6. TakenIsUsed'
          <5> SUFFICES ASSUME NEW b \in Attempt
              PROVE  /\ attempt'[b].took => /\ token'[attempt'[b].token].status = "used"
                                            /\ attempt'[b].pc \notin {"idle", "presented"}
                     /\ attempt'[b].pc \in {"taken", "exchanged", "installed"} => attempt'[b].took
            BY DEF TakenIsUsed, Row
          <5>1. CASE b = a
            BY <3>1, <4>2, <5>1
          <5>2. CASE b # a
            BY <3>1, <4>1, <5>2 DEF RedeemInv, TakenIsUsed, Row
          <5>3. QED BY <5>1, <5>2
        <4>7. takers' = takers
          <5>1. \A b \in Attempt : /\ attempt'[b].token = attempt[b].token
                                   /\ attempt'[b].took = attempt[b].took
            BY <4>1, <4>2
          <5>2. QED BY <5>1 DEF takers
        <4>8. QED BY <1>0, <4>4, <4>5, <4>6, <4>7 DEF RedeemInv
      <3>4. QED BY <2>3, <3>2, <3>3 DEF Select
    <2>4. CASE Consume(a)
      <3>1. Holds(a)
        BY <2>4 DEF Consume, Holds, In
      <3>2. RedeemInv' /\ Once!Take(attempt[a].token, a)
        BY <1>0, <2>4, <3>1, TakesIt DEF Consume
      <3>3. QED BY <2>0, <3>2 DEF Once!Next
    <2>5. CASE LookUser(a)
      <3> DEFINE r == [attempt[a] EXCEPT !.pc = "looked", !.seen = (Row(a).user \in account)]
      <3>1. r \in Request
        <4>1. (Row(a).user \in account) \in BOOLEAN
          OBVIOUS
        <4>2. "looked" \in Stage
          BY DEF Stage
        <4>3. QED BY <2>0, <4>1, <4>2, RequestMoved
      <3>2. Holds(a) /\ ~attempt[a].took
        BY <2>5 DEF RedeemInv, HeldIsUnused, Holds, LookUser, In
      <3>3. r.token = attempt[a].token /\ ~r.took /\ r.pc = "looked"
        BY <2>0, <3>2 DEF Request
      <3>4. attempt' = [attempt EXCEPT ![a] = r] /\ token' = token
        BY <2>5 DEF LookUser
      <3>5. QED BY <1>0, <3>1, <3>2, <3>3, <3>4, TakesNothing
    <2>6. CASE SignIn(a)
      <3>1. Holds(a) /\ ~attempt[a].took
        BY <2>6 DEF RedeemInv, HeldIsUnused, Holds, SignIn, In
      <3>2. CASE Refused(a) /\ token' = token
        BY <2>1, <3>1, <3>2
      <3>3. CASE /\ token' = [token EXCEPT ![attempt[a].token].status = "used"]
                 /\ attempt' = [attempt EXCEPT ![a].pc = "done", ![a].took = TRUE]
        <4>1. RedeemInv' /\ Once!Take(attempt[a].token, a)
          BY <1>0, <3>1, <3>3, TakesIt
        <4>2. QED BY <2>0, <4>1 DEF Once!Next
      <3>4. QED BY <2>6, <3>2, <3>3 DEF SignIn
    <2>8. CASE \/ Exchange(a) \/ InstallWorkspace(a) \/ Connect(a)
               \/ StoreGrant(a) \/ Break(a)
      <3>1. CASE attempt[a].took
        <4>1. /\ token' = token
              /\ \E s \in {"exchanged", "installed", "done", "failed"} : To(a, s)
          BY <2>8, <3>1 DEF Exchange, InstallWorkspace, Connect, Onboard, LinkInstaller, CreateLink,
             StoreGrant, Upsert, Break
        <4>2. QED BY <1>0, <3>1, <4>1, GoesOn
      <3>2. CASE ~attempt[a].took
        <4>1. CASE Break(a)
          <5>1. Refused(a) /\ token' = token
            BY <3>2, <4>1 DEF Break
          <5>2. QED BY <2>1, <3>2, <5>1
        <4>2. CASE ~Break(a)
          BY <2>8, <3>2, <4>2 DEF RedeemInv, TakenIsUsed, Exchange, InstallWorkspace, Connect,
             Onboard, LinkInstaller, CreateLink, StoreGrant, Upsert, In
        <4>3. QED BY <4>1, <4>2
      <3>3. QED BY <3>1, <3>2
    <2>9. QED BY <1>2, <2>2, <2>3, <2>4, <2>5, <2>6, <2>8 DEF Redeem
  <1>3. ASSUME NEW u \in User, Disconnect(u) PROVE RedeemInv' /\ UNCHANGED takers
    BY <1>0, <1>3, Elsewhere DEF Disconnect, DeleteRow, redeemVars
  <1>4. ASSUME NEW c \in Client, UseLink(c) PROVE RedeemInv' /\ UNCHANGED takers
    BY <1>0, <1>4, Elsewhere DEF UseLink, ForUser, Refresh, UpdateTokens, DropClient, redeemVars
  <1>5. CASE UNCHANGED vars
    BY <1>0, <1>5, Elsewhere DEF vars, redeemVars
  <1>6. QED BY <1>1, <1>2, <1>3, <1>4, <1>5 DEF Next

(* However many requests present a token and however they interleave, one   *)
(* takes it at most: Credentials implements SingleUse.                      *)
THEOREM TakenOnceHolds == Spec => TakenOnce
  <1>1. QED BY RedeemInit, RedeemStep, PTL DEF Spec, TakenOnce, Once!Spec

-----------------------------------------------------------------------------
LEMMA ConnectionsStep ==
  ASSUME TypeOK, [Next]_vars
  PROVE  /\ \A e \in External : external[e] # NoUser => external'[e] = external[e]
         /\ \A u \in User : link[u] = {} /\ link'[u] # {} =>
              \E a \in Attempt : In(a, "exchanged") /\ Row(a).user = u /\ attempt'[a].pc = "done"
  <1> DEFINE Stays == /\ \A e \in External : external[e] # NoUser => external'[e] = external[e]
                      /\ \A u \in User : link[u] = {} /\ link'[u] # {} =>
                           \E a \in Attempt : /\ In(a, "exchanged") /\ Row(a).user = u
                                              /\ attempt'[a].pc = "done"
  <1> USE DEF redeemVars, refreshVars
  <1>1. ASSUME UNCHANGED <<external, link>> PROVE Stays
    BY <1>1
  <1>2. ASSUME NEW t \in Token, Issue(t) \/ Expire(t) PROVE Stays
    BY <1>1, <1>2, Issued DEF Expire
  <1>3. ASSUME NEW a \in Attempt, Redeem(a) PROVE Stays
    <2>1. CASE Connect(a)
      BY <2>1 DEF Connect, Onboard, LinkInstaller, CreateLink, TypeOK
    <2>2. CASE StoreGrant(a)
      <3>1. attempt'[a].pc = "done"
        BY <2>2 DEF StoreGrant, Upsert, To, TypeOK, Request
      <3>2. \A u \in User \ {Row(a).user} : link'[u] = link[u]
        BY <2>2 DEF StoreGrant, Upsert, TypeOK
      <3>3. QED BY <2>2, <3>1, <3>2 DEF StoreGrant, Upsert
    <2>3. CASE ~Connect(a) /\ ~StoreGrant(a)
      <3>1. UNCHANGED <<external, link>>
        BY <1>3, <2>3 DEF Redeem, Present, Select, Consume, LookUser, SignIn, Exchange,
             InstallWorkspace, Break
      <3>2. QED BY <1>1, <3>1
    <2>4. QED BY <2>1, <2>2, <2>3
  <1>4. ASSUME NEW u \in User, Disconnect(u) PROVE Stays
    BY <1>4 DEF Disconnect, DeleteRow, TypeOK
  <1>5. ASSUME NEW c \in Client, UseLink(c) PROVE Stays
    <2>1. CASE UpdateTokens(c)
      <3>1. PICK held \in client[c].held :
              link' = [link EXCEPT ![client[c].user] = {Updated(c, row, held) : row \in @}]
        BY <2>1 DEF UpdateTokens
      <3>2. \A u \in User : link[u] = {} => link'[u] = {}
        BY <3>1 DEF TypeOK
      <3>3. external' = external
        BY <2>1 DEF UpdateTokens
      <3>4. QED BY <3>2, <3>3
    <2>2. CASE ~UpdateTokens(c)
      <3>1. UNCHANGED <<external, link>>
        BY <1>5, <2>2 DEF UseLink, ForUser, Refresh, DropClient
      <3>2. QED BY <1>1, <3>1
    <2>3. QED BY <2>1, <2>2
  <1>6. CASE UNCHANGED vars
    BY <1>1, <1>6 DEF vars
  <1>7. QED BY <1>2, <1>3, <1>4, <1>5, <1>6 DEF Next

(* An identity stays with its user, and a disconnected integration stays so *)
(* until a flow of that user ends, whatever the clients still hold.         *)
THEOREM ConnectionsStayHolds == Spec => ConnectionsStay
  <1>1. TypeOK /\ [Next]_vars =>
          [ /\ \A e \in External : external[e] # NoUser => external'[e] = external[e]
            /\ \A u \in User : link[u] = {} /\ link'[u] # {} =>
                 \E a \in Attempt : In(a, "exchanged") /\ Row(a).user = u /\ attempt'[a].pc = "done"
          ]_vars
    BY ConnectionsStep
  <1>2. QED BY <1>1, TypeCorrect, PTL DEF Spec, ConnectionsStay

-----------------------------------------------------------------------------
(* A request that took its token, told apart by what the token was for.     *)
Spent(a) ==
  /\ attempt[a].at = "magic" => Row(a).user \in account
  /\ attempt[a].at \in {"telegram", "slack"}
       /\ attempt[a].pc \in {"done", "failed"} /\ faults = 0
       => external[attempt[a].ext] # NoUser
  /\ attempt[a].at = "slack" /\ In(a, "done") => workspace # {}
  /\ attempt[a].at = "oauth" /\ faults = 0 => ~In(a, "failed")

LookedForMagic == \A a \in Attempt : attempt[a].pc = "looked" => attempt[a].at = "magic"
InstalledForSlack ==
  \A a \in Attempt : attempt[a].pc = "installed" => attempt[a].at = "slack" /\ workspace # {}
SpentInv == /\ RedeemInv /\ LookedForMagic /\ InstalledForSlack
            /\ \A a \in Attempt : attempt[a].took => Spent(a)

(* No step takes an account, an identity or a counted fault away, or the    *)
(* user from a token.                                                       *)
LEMMA OnlyMore ==
  ASSUME TypeOK, [Next]_vars
  PROVE  /\ account \subseteq account'
         /\ \A e \in External : external[e] # NoUser => external'[e] # NoUser
         /\ workspace # {} => workspace' # {}
         /\ faults' = 0 => faults = 0
         /\ \A t \in Token : token'[t].user = token[t].user
  <1>0. /\ \A a \in Attempt : attempt[a].token \in Token
        /\ faults \in Nat
    BY CredentialsAssumption DEF TypeOK, Request
  <1> DEFINE Marked == \/ token' = token
                       \/ \E t \in Token, s \in {"live", "used", "expired"} :
                            token' = [token EXCEPT ![t].status = s]
             Counted == faults' = faults \/ faults' = faults + 1
             Installed == workspace # {} => workspace' # {}
             More == account \subseteq account' /\ Installed /\ Counted /\ Marked
  <1>1. More
    <2>1. ASSUME NEW t \in Token, Issue(t) \/ Expire(t) PROVE More
      BY <2>1, Issued DEF Expire
    <2>2. ASSUME NEW a \in Attempt, Redeem(a) PROVE More
      <3>1. CASE \E t \in Token, k \in Kind, e \in External : Present(a, t, k, e)
        BY <3>1 DEF Present
      <3>2. CASE Select(a)
        BY <3>2 DEF Select
      <3>3. CASE Consume(a)
        BY <1>0, <3>3 DEF Consume
      <3>4. CASE LookUser(a)
        BY <3>4 DEF LookUser
      <3>5. CASE SignIn(a)
        BY <1>0, <3>5 DEF SignIn
      <3>6. CASE Exchange(a) \/ Break(a)
        BY <3>6 DEF Exchange, Break, Fault
      <3>7. CASE InstallWorkspace(a) \/ Connect(a) \/ StoreGrant(a)
        BY <3>7 DEF InstallWorkspace, Connect, Onboard, LinkInstaller, CreateLink, StoreGrant, Upsert
      <3>8. QED BY <2>2, <3>1, <3>2, <3>3, <3>4, <3>5, <3>6, <3>7 DEF Redeem
    <2>3. ASSUME NEW u \in User, Disconnect(u) PROVE More
      BY <2>3 DEF Disconnect, DeleteRow, redeemVars
    <2>4. ASSUME NEW c \in Client, UseLink(c) PROVE More
      <3>1. UNCHANGED redeemVars /\ Counted
        BY <2>4 DEF UseLink, ForUser, Refresh, UpdateTokens, DropClient, Fault
      <3>2. QED BY <3>1 DEF redeemVars
    <2>5. CASE UNCHANGED vars
      BY <2>5 DEF vars, redeemVars
    <2>6. QED BY <2>1, <2>2, <2>3, <2>4, <2>5 DEF Next
  <1>2. \A e \in External : external[e] # NoUser => external'[e] # NoUser
    BY ConnectionsStep
  <1>5. faults' = 0 => faults = 0
    BY <1>0, <1>1
  <1>6. Marked
    BY <1>1
  <1>7. \A t \in Token : token'[t].user = token[t].user
    BY <1>6 DEF TypeOK, TokenRow
  <1>8. QED BY <1>1, <1>2, <1>5, <1>7

(* What the invariant says of request b after a step. *)
SpentNext(b) ==
  /\ attempt'[b].pc = "looked" => attempt'[b].at = "magic"
  /\ attempt'[b].pc = "installed" => attempt'[b].at = "slack" /\ workspace' # {}
  /\ attempt'[b].took =>
       /\ attempt'[b].at = "magic" => token'[attempt'[b].token].user \in account'
       /\ attempt'[b].at \in {"telegram", "slack"}
            /\ attempt'[b].pc \in {"done", "failed"} /\ faults' = 0
            => external'[attempt'[b].ext] # NoUser
       /\ attempt'[b].at = "slack" /\ attempt'[b].pc = "done" => workspace' # {}
       /\ attempt'[b].at = "oauth" /\ faults' = 0 => attempt'[b].pc # "failed"

LEMMA SpentStays ==
  ASSUME SpentInv, [Next]_vars, NEW b \in Attempt, attempt'[b] = attempt[b]
  PROVE  SpentNext(b)
  <1>0. TypeOK
    BY DEF SpentInv, RedeemInv
  <1>1. attempt[b].token \in Token /\ attempt[b].ext \in External
    BY <1>0 DEF TypeOK, Request
  <1>2. token'[attempt[b].token].user = Row(b).user
    BY <1>0, <1>1, OnlyMore DEF Row
  <1>3. QED BY <1>0, <1>1, <1>2, OnlyMore DEF SpentInv, LookedForMagic, InstalledForSlack, Spent, SpentNext, In

LEMMA SpentStep ==
  ASSUME SpentInv, [Next]_vars
  PROVE  SpentInv'
  <1>0. TypeOK /\ TypeOK' /\ RedeemInv /\ RedeemInv'
    BY RedeemStep, TypeStep DEF SpentInv, RedeemInv
  <1>1. ASSUME NEW b \in Attempt, attempt'[b] = attempt[b] PROVE SpentNext(b)
    BY <1>1, SpentStays
  <1>2. ASSUME NEW a \in Attempt, Redeem(a) PROVE \A b \in Attempt : SpentNext(b)
    <2>0. attempt[a] \in Request /\ attempt[a].token \in Token /\ Row(a).user \in User
          /\ attempt[a].ext \in External /\ faults \in Nat
      BY <1>0, CredentialsAssumption DEF TypeOK, Request, Row, TokenRow
    <2>1. \A b \in Attempt \ {a} : attempt'[b] = attempt[b]
      BY <1>0, <1>2 DEF TypeOK, Redeem, Present, Select, Consume, LookUser, SignIn, Exchange,
                       InstallWorkspace, Connect, Onboard, LinkInstaller, CreateLink, StoreGrant, Upsert,
                       Break, To, Refused
    <2>5. SUFFICES SpentNext(a)
      BY <1>1, <2>1
    <2>2. ASSUME Refused(a) PROVE SpentNext(a)
      <3>1. attempt'[a] = [Idle EXCEPT !.pc = "failed"]
        BY <1>0, <2>2 DEF Refused, TypeOK
      <3>2. QED BY <3>1 DEF Idle, SpentNext
    <2>3. ASSUME NEW s \in Stage, To(a, s)
          PROVE  /\ attempt'[a].pc = s /\ attempt'[a].at = attempt[a].at
                 /\ attempt'[a].took = attempt[a].took /\ attempt'[a].token = attempt[a].token
                 /\ attempt'[a].ext = attempt[a].ext
      BY <1>0, <2>0, <2>3 DEF To, TypeOK, Request
    <2>4. ASSUME NEW s \in Stage, attempt' = [attempt EXCEPT ![a].pc = s, ![a].took = TRUE]
          PROVE  /\ attempt'[a].pc = s /\ attempt'[a].at = attempt[a].at
                 /\ attempt'[a].token = attempt[a].token
      BY <1>0, <2>0, <2>4 DEF TypeOK, Request
    <2>6. /\ "locked" \in Stage /\ "taken" \in Stage /\ "looked" \in Stage
          /\ "exchanged" \in Stage /\ "installed" \in Stage /\ "done" \in Stage /\ "failed" \in Stage
      BY DEF Stage
    <2>7. ASSUME NEW t \in Token, NEW k \in Kind, NEW e \in External, Present(a, t, k, e)
          PROVE SpentNext(a)
      <3>1. ~attempt[a].took
        BY <1>0, <2>7 DEF RedeemInv, TakenIsUsed, Present, In
      <3>2. attempt'[a].pc = "presented" /\ attempt'[a].took = attempt[a].took
        BY <1>0, <2>0, <2>7 DEF Present, TypeOK, Request
      <3>3. QED BY <3>1, <3>2 DEF SpentNext
    <2>8. CASE Select(a)
      <3>1. ~attempt[a].took
        BY <1>0, <2>8 DEF RedeemInv, TakenIsUsed, Select, In
      <3>2. CASE To(a, "locked")
        BY <2>3, <2>6, <3>1, <3>2 DEF SpentNext
      <3>3. QED BY <2>2, <2>8, <3>2 DEF Select
    <2>9. CASE Consume(a)
      <3>1. attempt'[a].pc = "taken" /\ attempt'[a].at # "magic"
        BY <2>4, <2>6, <2>9 DEF Consume
      <3>2. QED BY <3>1 DEF SpentNext
    <2>10. CASE LookUser(a)
      <3>1. ~attempt[a].took
        BY <1>0, <2>10 DEF RedeemInv, HeldIsUnused, Holds, LookUser, In
      <3>2. /\ attempt'[a].pc = "looked" /\ attempt'[a].took = attempt[a].took
            /\ attempt'[a].at = "magic"
        BY <1>0, <2>0, <2>10 DEF LookUser, TypeOK, Request
      <3>3. QED BY <3>1, <3>2 DEF SpentNext
    <2>11. CASE SignIn(a)
      <3>1. CASE Refused(a)
        BY <2>2, <3>1
      <3>2. CASE /\ token' = [token EXCEPT ![attempt[a].token].status = "used"]
                 /\ account' = account \cup {Row(a).user}
                 /\ attempt' = [attempt EXCEPT ![a].pc = "done", ![a].took = TRUE]
        <4>1. attempt[a].at = "magic"
          BY <2>11 DEF SignIn, In, SpentInv, LookedForMagic
        <4>2. /\ attempt'[a].pc = "done" /\ attempt'[a].at = "magic"
              /\ attempt'[a].token = attempt[a].token
          BY <2>4, <2>6, <3>2, <4>1
        <4>3. token'[attempt'[a].token].user = Row(a).user
          BY <1>0, <2>0, <4>2, OnlyMore DEF Row
        <4>4. QED BY <3>2, <4>2, <4>3 DEF SpentNext
      <3>3. QED BY <2>11, <3>1, <3>2 DEF SignIn
    <2>12. CASE Exchange(a)
      <3>1. attempt[a].at # "magic"
        BY <2>12 DEF Exchange
      <3>2. CASE To(a, "exchanged")
        BY <2>3, <2>6, <3>1, <3>2 DEF SpentNext
      <3>3. CASE To(a, "failed") /\ Fault
        <4>1. faults' # 0
          BY <2>0, <3>3 DEF Fault
        <4>2. QED BY <2>3, <2>6, <3>1, <3>3, <4>1 DEF SpentNext
      <3>4. QED BY <2>12, <3>2, <3>3 DEF Exchange
    <2>17. CASE InstallWorkspace(a)
      <3>1. attempt'[a].pc = "installed" /\ attempt'[a].at = "slack"
        BY <2>3, <2>6, <2>17 DEF InstallWorkspace
      <3>2. workspace' # {}
        BY <2>17 DEF InstallWorkspace
      <3>3. QED BY <3>1, <3>2 DEF SpentNext
    <2>13. CASE Connect(a)
      <3>1. /\ attempt[a].at \in {"telegram", "slack"}
            /\ attempt[a].at = "slack" => workspace' # {}
        BY <2>13 DEF Connect, Onboard, LinkInstaller, CreateLink, SpentInv, InstalledForSlack, In
      <3>2. To(a, "done") \/ To(a, "failed")
        BY <2>13 DEF Connect, Onboard, LinkInstaller, CreateLink
      <3>3. /\ attempt'[a].at = attempt[a].at /\ attempt'[a].ext = attempt[a].ext
            /\ attempt'[a].pc \notin {"looked", "installed"}
        BY <2>3, <2>6, <3>2
      <3>4. external'[attempt[a].ext] # NoUser
        BY <1>0, <2>0, <2>13, CredentialsAssumption DEF Connect, Onboard, LinkInstaller,
           CreateLink, TypeOK
      <3>5. QED BY <3>1, <3>3, <3>4 DEF SpentNext
    <2>14. CASE StoreGrant(a)
      <3>1. attempt'[a].pc = "done" /\ attempt'[a].at = "oauth"
        BY <2>3, <2>6, <2>14 DEF StoreGrant, Upsert
      <3>2. QED BY <3>1 DEF SpentNext
    <2>15. CASE Break(a)
      <3>1. faults' # 0
        BY <2>0, <2>15 DEF Break, Fault
      <3>2. CASE Refused(a)
        BY <2>2, <3>2
      <3>3. CASE attempt[a].took /\ To(a, "failed")
        <4>1. /\ attempt'[a].pc = "failed" /\ attempt'[a].at = attempt[a].at
              /\ attempt'[a].token = attempt[a].token
          BY <2>3, <2>6, <3>3
        <4>2. Spent(a)
          BY <3>3 DEF SpentInv
        <4>3. token'[attempt'[a].token].user = Row(a).user
          BY <1>0, <2>0, <4>1, OnlyMore DEF Row
        <4>4. QED BY <1>0, <3>1, <4>1, <4>2, <4>3, OnlyMore DEF Spent, SpentNext
      <3>4. QED BY <2>15, <3>2, <3>3 DEF Break
    <2>16. QED
      BY <1>2, <2>7, <2>8, <2>9, <2>10, <2>11, <2>12, <2>17, <2>13, <2>14,
         <2>15 DEF Redeem
  <1>3. attempt' = attempt => \A b \in Attempt : SpentNext(b)
    BY <1>1
  <1>4. \A b \in Attempt : SpentNext(b)
    <2>1. CASE \E a \in Attempt : Redeem(a)
      BY <1>2, <2>1
    <2>2. CASE ~\E a \in Attempt : Redeem(a)
      <3>1. attempt' = attempt
        BY <2>2, Issued DEF Next, vars, redeemVars, Expire, Disconnect, DeleteRow, UseLink,
           ForUser,
                    Refresh, UpdateTokens, DropClient
      <3>2. QED BY <1>3, <3>1
    <2>3. QED BY <2>1, <2>2
  <1>5. QED BY <1>0, <1>4 DEF SpentInv, LookedForMagic, InstalledForSlack, Spent, SpentNext, Row, In

(* A token that was used was good for something, unless a call failed.      *)
THEOREM SpentForSomethingHolds == Spec => []SpentForSomething
  <1>1. Init => SpentInv
    BY RedeemInit DEF Init, Idle, SpentInv, LookedForMagic, InstalledForSlack
  <1>2. SpentInv => SpentForSomething
    BY DEF SpentInv, RedeemInv, SpentForSomething, Spent
  <1>3. QED BY <1>1, <1>2, SpentStep, PTL DEF Spec

-----------------------------------------------------------------------------
(* Where the copies and rows of an integration's tokens come from, and who  *)
(* has the newest of them.  A client that was given another refresh token   *)
(* than its copy's has yet to write it.                                     *)
Stored(u) == {a \in Grants(u) : In(a, "done")}
Rotated(c, held) == client[c].pc = "refreshed" /\ client[c].gen # held.gen

GrantsKept ==
  /\ \A u \in User : \A row \in link[u] : row.access \in Stored(u) /\ row.grant \in Stored(u)
  /\ \A c \in Client : \A held \in client[c].held : held.grant \in Stored(client[c].user)
  /\ \A a \in Attempt : newest[a] # 0 => In(a, "done")

(* Where the provider revokes the tokens before the newest, nobody has one  *)
(* of later, and who was given the newest is the only one to have it until  *)
(* it is written.                                                           *)
NotNewer ==
  strict =>
    /\ \A u \in User : \A row \in link[u] : row.gen <= newest[row.grant]
    /\ \A c \in Client : \A held \in client[c].held : held.gen <= newest[held.grant]

Alone(c, held) ==
  /\ client[c].gen = newest[held.grant]
  /\ \A u \in User : \A row \in link[u] : row.grant = held.grant => row.gen # client[c].gen
  /\ \A d \in Client \ {c} : \A other \in client[d].held :
       other.grant = held.grant => other.gen # client[c].gen /\ ~Rotated(d, other)

OneRotates ==
  strict => \A c \in Client : \A held \in client[c].held : Rotated(c, held) => Alone(c, held)

Writer(u) ==
  \E c \in Client : client[c].user = u /\ \E held \in client[c].held : Rotated(c, held)

StillToWrite ==
  strict /\ faults = 0 => \A u \in User : OneGrant(u) => \A row \in link[u] :
    row.gen = newest[row.grant] \/ Writer(u)

RefreshInv == RedeemInv /\ GrantsKept /\ NotNewer /\ OneRotates /\ StillToWrite

LEMMA RefreshTypes ==
  ASSUME TypeOK
  PROVE  /\ \A u \in User : \A row \in link[u] : row \in Fields /\ link[u] = {row}
         /\ \A c \in Client : \A held \in client[c].held : held \in Fields /\ client[c].held = {held}
         /\ \A c \in Client : client[c].user \in User /\ client[c].gen \in Nat
         /\ \A row \in Fields : row.gen \in Nat /\ row.grant \in Attempt /\ row.access \in Attempt
         /\ \A a \in Attempt : newest[a] \in Nat
  <1>1. \A R \in Rows : \A f \in R : f \in Fields /\ R = {f}
    BY DEF Rows
  <1>2. 0..MaxGen \subseteq Nat
    BY CredentialsAssumption
  <1>3. \A c \in Client : client[c] \in Copy
    BY DEF TypeOK
  <1>4. \A c \in Client : client[c].held \in Rows /\ client[c].user \in User /\ client[c].gen \in 0..MaxGen
    BY <1>3 DEF Copy
  <1>5. QED BY <1>1, <1>2, <1>4 DEF TypeOK, Fields

LEMMA RefreshInit == Init => RefreshInv
  <1> SUFFICES ASSUME Init PROVE RefreshInv
    OBVIOUS
  <1>1. /\ \A u \in User : link[u] = {}
        /\ \A c \in Client : client[c].held = {}
        /\ \A a \in Attempt : newest[a] = 0
    BY DEF Init, NoClient
  <1>2. QED BY <1>1, RedeemInit
          DEF RefreshInv, GrantsKept, NotNewer, OneRotates, StillToWrite

(* A grant stays its user's, and one that was stored stays so.              *)
LEMMA GrantStays ==
  ASSUME RedeemInv, [Next]_vars
  PROVE  /\ \A u \in User : Grants(u) \subseteq Grants(u)' /\ Stored(u) \subseteq Stored(u)'
         /\ \A a \in Attempt : In(a, "done") => In(a, "done")'
  <1>0. TypeOK
    BY DEF RedeemInv
  <1> DEFINE Kept(b) == /\ attempt[b].took => /\ attempt'[b].took
                                              /\ attempt'[b].at = attempt[b].at
                                              /\ attempt'[b].token = attempt[b].token
                        /\ attempt[b].pc = "done" => attempt'[b].pc = "done"
  <1>1. ASSUME NEW a \in Attempt, Redeem(a) PROVE \A b \in Attempt : Kept(b)
    <2>0. attempt[a] \in Request
      BY <1>0 DEF TypeOK
    <2>1. \A b \in Attempt \ {a} : attempt'[b] = attempt[b]
      BY <1>0, <1>1 DEF TypeOK, Redeem, Present, Select, Consume, LookUser, SignIn, Exchange,
                       InstallWorkspace, Connect, Onboard, LinkInstaller, CreateLink, StoreGrant, Upsert,
                       Break, To, Refused
    <2>2. attempt[a].pc # "done"
      BY <1>1 DEF Redeem, Present, Select, Consume, LookUser, SignIn, Exchange,
                  InstallWorkspace, Connect, Onboard, LinkInstaller, CreateLink, StoreGrant, Break, In
    <2>3. ASSUME NEW s \in Stage, To(a, s) PROVE Kept(a)
      BY <1>0, <2>0, <2>2, <2>3 DEF To, TypeOK, Request
    <2>4. attempt[a].took =>
            \/ \E s \in Stage : To(a, s)
            \/ attempt' = [attempt EXCEPT ![a].pc = "taken", ![a].took = TRUE]
      <3>1. SUFFICES ASSUME attempt[a].took
                     PROVE  \/ \E s \in Stage : To(a, s)
                            \/ attempt' = [attempt EXCEPT ![a].pc = "taken", ![a].took = TRUE]
        OBVIOUS
      <3>2. attempt[a].pc \notin {"idle", "presented", "locked", "looked"}
        BY <3>1 DEF RedeemInv, TakenIsUsed, HeldIsUnused, Holds
      <3>3. \E s \in {"exchanged", "installed", "done", "failed"} : To(a, s)
        BY <1>1, <3>1, <3>2 DEF Redeem, Present, Select, Consume, LookUser, SignIn, Exchange,
             InstallWorkspace, Connect, Onboard, LinkInstaller, CreateLink, StoreGrant, Break, In
      <3>4. QED BY <3>3 DEF Stage
    <2>5. attempt' = [attempt EXCEPT ![a].pc = "taken", ![a].took = TRUE] => Kept(a)
      BY <1>0, <2>0, <2>2 DEF TypeOK, Request
    <2>6. Kept(a)
      BY <2>2, <2>3, <2>4, <2>5
    <2>7. QED BY <2>1, <2>6
  <1>2. \A b \in Attempt : Kept(b)
    <2>1. CASE \E a \in Attempt : Redeem(a)
      BY <1>1, <2>1
    <2>2. CASE ~\E a \in Attempt : Redeem(a)
      <3>1. attempt' = attempt
        BY <2>2, Issued DEF Next, vars, redeemVars, Expire, Disconnect, DeleteRow, UseLink,
           ForUser, Refresh, UpdateTokens, DropClient
      <3>2. QED BY <3>1
    <2>3. QED BY <2>1, <2>2
  <1>3. \A b \in Attempt : attempt[b].token \in Token
    BY <1>0 DEF TypeOK, Request
  <1>4. \A b \in Attempt : attempt[b].took => Row(b)'.user = Row(b).user
    BY <1>0, <1>2, <1>3, OnlyMore DEF Row
  <1>5. QED BY <1>2, <1>4 DEF Grants, Stored, In

(* Steps that leave rows, copies and rotations alone. *)
LEMMA RefreshElsewhere ==
  ASSUME RefreshInv, [Next]_vars, UNCHANGED <<link, client, newest, strict>>
  PROVE  RefreshInv'
  <1>0. TypeOK /\ RedeemInv
    BY DEF RefreshInv, RedeemInv
  <1>1. RedeemInv'
    BY <1>0, RedeemStep
  <1>2. GrantsKept'
    <2>1. \A u \in User : \A row \in link'[u] : row.access \in Stored(u)' /\ row.grant \in Stored(u)'
      BY <1>0, GrantStays DEF RefreshInv, GrantsKept
    <2>2. \A c \in Client : \A held \in client'[c].held : held.grant \in Stored(client[c].user)'
      <3>1. SUFFICES ASSUME NEW c \in Client, NEW held \in client[c].held
                     PROVE  held.grant \in Stored(client[c].user)'
        OBVIOUS
      <3>2. PICK u \in User : u = client[c].user
        BY <1>0, RefreshTypes
      <3>3. held.grant \in Stored(u)
        BY <3>2 DEF RefreshInv, GrantsKept
      <3>4. held.grant \in Stored(u)'
        BY <1>0, <3>3, GrantStays
      <3>5. Stored(client[c].user)' = Stored(u)'
        BY <3>2 DEF Stored, Grants
      <3>6. QED BY <3>4, <3>5
    <2>3. \A a \in Attempt : newest'[a] # 0 => In(a, "done")'
      BY <1>0, GrantStays DEF RefreshInv, GrantsKept
    <2>4. QED BY <2>1, <2>2, <2>3 DEF GrantsKept
  <1>3. NotNewer'
    BY DEF RefreshInv, NotNewer
  <1>4. OneRotates'
    BY DEF RefreshInv, OneRotates, Alone, Rotated
  <1>5. StillToWrite'
    <2>1. faults' = 0 => faults = 0
      BY <1>0, OnlyMore
    <2>2. \A u \in User : OneGrant(u)' => OneGrant(u)
      BY <1>0, GrantStays DEF OneGrant
    <2>3. \A u \in User : Writer(u) => Writer(u)'
      BY DEF Writer, Rotated
    <2>4. QED BY <2>1, <2>2, <2>3 DEF RefreshInv, StillToWrite
  <1>6. QED BY <1>1, <1>2, <1>3, <1>4, <1>5 DEF RefreshInv

(* What one of the other steps leaves of the invariant to show. *)
LEMMA GrantsStay ==
  ASSUME RefreshInv, [Next]_vars
  PROVE  /\ \A u \in User : \A row \in link[u] : row.access \in Stored(u)' /\ row.grant \in Stored(u)'
         /\ \A c \in Client : \A held \in client[c].held : \A u \in User :
              u = client[c].user => held.grant \in Stored(u)'
         /\ \A a \in Attempt : newest[a] # 0 => In(a, "done")'
         /\ \A u \in User : OneGrant(u)' => OneGrant(u)
         /\ faults' = 0 => faults = 0
         /\ RedeemInv'
  <1>0. TypeOK /\ RedeemInv
    BY DEF RefreshInv, RedeemInv
  <1>1. RedeemInv'
    BY <1>0, RedeemStep
  <1>2. QED BY <1>0, <1>1, OnlyMore, GrantStays DEF RefreshInv, GrantsKept, OneGrant

(* The tokens of a new grant: nobody has a copy of them yet. *)
LEMMA StoreKeeps ==
  ASSUME RefreshInv, [Next]_vars, NEW a \in Attempt, StoreGrant(a)
  PROVE  RefreshInv'
  <1>0. TypeOK /\ RedeemInv
    BY DEF RefreshInv, RedeemInv
  <1> DEFINE new == [access |-> a, grant |-> a, gen |-> 0]
  <1>1. PICK v \in User : v = Row(a).user
    BY <1>0 DEF TypeOK, Request, Row, TokenRow
  <1>2. /\ link' = [link EXCEPT ![v] = {new}]
        /\ UNCHANGED <<client, newest, strict>> /\ UNCHANGED <<token, faults>>
        /\ In(a, "exchanged") /\ attempt[a].at = "oauth" /\ To(a, "done")
    BY <1>1 DEF StoreGrant, Upsert, refreshVars
  <1>3. attempt[a].took
    BY <1>2 DEF RefreshInv, RedeemInv, TakenIsUsed, In
  <1>4. newest[a] = 0 /\ \A u \in User : a \notin Stored(u)
    BY <1>2 DEF RefreshInv, GrantsKept, Stored, In
  <1>5. a \in Stored(v)'
    <2>1. /\ attempt'[a].pc = "done" /\ attempt'[a].took /\ attempt'[a].at = "oauth"
          /\ attempt'[a].token = attempt[a].token
      BY <1>0, <1>2, <1>3 DEF To, TypeOK, Request
    <2>2. QED BY <1>1, <1>2, <2>1 DEF Stored, Grants, Row, In
  <1>6. /\ link'[v] = {new}
        /\ \A u \in User \ {v} : link'[u] = link[u]
    BY <1>0, <1>2 DEF TypeOK
  <1>7. new.access = a /\ new.grant = a /\ new.gen = 0
    OBVIOUS
  <1>8. \A c \in Client : \A held \in client[c].held : held.grant # a
    BY <1>0, <1>4, RefreshTypes DEF RefreshInv, GrantsKept
  <1> HIDE DEF new
  <1>9. GrantsKept'
    <2>1. \A u \in User : \A row \in link'[u] : row.access \in Stored(u)' /\ row.grant \in Stored(u)'
      BY <1>5, <1>6, <1>7, GrantsStay
    <2>2. \A c \in Client : \A held \in client'[c].held : held.grant \in Stored(client[c].user)'
      <3>1. SUFFICES ASSUME NEW c \in Client, NEW held \in client[c].held
                     PROVE  held.grant \in Stored(client[c].user)'
        BY <1>2
      <3>2. PICK u \in User : u = client[c].user
        BY <1>0, RefreshTypes
      <3>3. held.grant \in Stored(u)'
        BY <3>2, GrantsStay
      <3>4. Stored(client[c].user)' = Stored(u)'
        BY <1>2, <3>2 DEF Stored, Grants
      <3>5. QED BY <3>3, <3>4
    <2>3. QED BY <1>2, <2>1, <2>2, GrantsStay DEF GrantsKept
  <1>10. NotNewer'
    BY <1>2, <1>4, <1>6, <1>7 DEF RefreshInv, NotNewer
  <1>11. OneRotates'
    BY <1>2, <1>6, <1>7, <1>8 DEF RefreshInv, OneRotates, Alone, Rotated
  <1>12. StillToWrite'
    <2>1. \A u \in User : Writer(u) => Writer(u)'
      BY <1>2 DEF Writer, Rotated
    <2>2. QED BY <1>2, <1>4, <1>6, <1>7, <2>1, GrantsStay DEF RefreshInv, StillToWrite
  <1>13. QED BY <1>9, <1>10, <1>11, <1>12, GrantsStay DEF RefreshInv

LEMMA CopiesKept ==
  ASSUME RefreshInv, UNCHANGED <<token, attempt>>, NEW c \in Client, NEW v \in User,
         \A d \in Client \ {c} : client'[d] = client[d],
         client'[c].user = v, \A held \in client'[c].held : held.grant \in Stored(v)
  PROVE  \A d \in Client : \A held \in client'[d].held : held.grant \in Stored(client[d].user)'
  <1>1. \A u : Stored(u)' = Stored(u)
    BY DEF Stored, Grants, Row, In
  <1>2. SUFFICES ASSUME NEW d \in Client, NEW held \in client'[d].held
                 PROVE  held.grant \in Stored(client[d].user)'
    OBVIOUS
  <1>3. held.grant \in Stored(client'[d].user)
    BY <1>2 DEF RefreshInv, GrantsKept
  <1>4. Stored(client[d].user)' = Stored(client'[d].user)
    BY DEF Stored, Grants, Row, In
  <1>5. QED BY <1>3, <1>4

LEMMA DisconnectKeeps ==
  ASSUME RefreshInv, [Next]_vars, NEW v \in User, Disconnect(v)
  PROVE  RefreshInv'
  <1>0. TypeOK /\ RedeemInv
    BY DEF RefreshInv, RedeemInv
  <1>1. /\ \A u \in User : \A row \in link'[u] : row \in link[u]
        /\ UNCHANGED <<client, newest, strict, faults>>
    BY <1>0 DEF Disconnect, DeleteRow, redeemVars, refreshVars, TypeOK
  <1>2. GrantsKept'
    <2>1. UNCHANGED <<token, attempt>>
      BY DEF Disconnect, redeemVars
    <2>2. \A c \in Client : \A held \in client'[c].held : held.grant \in Stored(client[c].user)'
      BY <1>1, <2>1 DEF RefreshInv, GrantsKept, Stored, Grants, Row, In
    <2>3. QED BY <1>1, <2>2, GrantsStay DEF GrantsKept
  <1>3. NotNewer'
    BY <1>1 DEF RefreshInv, NotNewer
  <1>4. OneRotates'
    BY <1>1 DEF RefreshInv, OneRotates, Alone, Rotated
  <1>5. StillToWrite'
    <2>1. \A u \in User : Writer(u) => Writer(u)'
      BY <1>1 DEF Writer, Rotated
    <2>2. QED BY <1>1, <2>1, GrantsStay DEF RefreshInv, StillToWrite
  <1>6. QED BY <1>2, <1>3, <1>4, <1>5, GrantsStay DEF RefreshInv

(* A client is made with a copy of the row, or dropped. *)
LEMMA CopyKeeps ==
  ASSUME RefreshInv, [Next]_vars, NEW c \in Client, NEW v \in User,
         ForUser(c, v) \/ DropClient(c)
  PROVE  RefreshInv'
  <1>0. TypeOK /\ RedeemInv
    BY DEF RefreshInv, RedeemInv
  <1>1. /\ UNCHANGED <<token, attempt, link, newest, strict>>
        /\ \A d \in Client \ {c} : client'[d] = client[d]
    BY <1>0 DEF ForUser, DropClient, redeemVars, TypeOK
  <1>2. /\ client'[c].pc # "refreshed"
        /\ client[c].pc = "refreshed" => faults' # 0
        /\ \E w \in User : client'[c].user = w /\ \A held \in client'[c].held : held \in link[w]
    <2>1. CASE ForUser(c, v)
      BY <1>0, <2>1 DEF ForUser, TypeOK, Copy
    <2>2. CASE DropClient(c)
      <3>1. NoClient.pc = "idle" /\ NoClient.user \in User /\ NoClient.held = {}
        BY SomeToken DEF NoClient
      <3>2. client'[c] = NoClient
        BY <1>0, <2>2 DEF DropClient, TypeOK
      <3>3. client[c].pc = "refreshed" => faults' # 0
        BY <1>0, <2>2, CredentialsAssumption DEF DropClient, Fault, TypeOK
      <3>4. QED BY <3>1, <3>2, <3>3
    <2>3. QED BY <2>1, <2>2
  <1>3. PICK w \in User : client'[c].user = w /\ \A held \in client'[c].held : held \in link[w]
    BY <1>2
  <1>4. GrantsKept'
    <2>1. \A held \in client'[c].held : held.grant \in Stored(w)
      BY <1>3 DEF RefreshInv, GrantsKept
    <2>2. \A d \in Client : \A held \in client'[d].held : held.grant \in Stored(client[d].user)'
      BY <1>1, <1>3, <2>1, CopiesKept
    <2>3. QED BY <1>1, <2>2, GrantsStay DEF GrantsKept
  <1>5. NotNewer'
    BY <1>1, <1>3 DEF RefreshInv, NotNewer
  <1>6. OneRotates'
    <2>1. SUFFICES ASSUME strict, NEW d \in Client, NEW held \in client'[d].held, Rotated(d, held)'
                   PROVE  Alone(d, held)'
      BY <1>1 DEF OneRotates
    <2>2. d # c /\ client'[d] = client[d]
      BY <1>1, <1>2, <2>1 DEF Rotated
    <2>3. Alone(d, held)
      BY <2>1, <2>2 DEF RefreshInv, OneRotates, Rotated
    <2>4. \A other \in client'[c].held :
            other.grant = held.grant => other.gen # client[d].gen /\ ~Rotated(c, other)'
      BY <1>2, <1>3, <2>3 DEF Alone, Rotated
    <2>5. QED BY <1>1, <2>2, <2>3, <2>4 DEF Alone, Rotated
  <1>7. StillToWrite'
    <2>1. ASSUME faults' = 0, NEW u \in User, Writer(u) PROVE Writer(u)'
      <3>1. PICK d \in Client : client[d].user = u /\ \E held \in client[d].held : Rotated(d, held)
        BY <2>1 DEF Writer
      <3>2. d # c
        BY <1>2, <2>1, <3>1 DEF Rotated, ForUser
      <3>3. QED BY <1>1, <3>1, <3>2 DEF Writer, Rotated
    <2>2. QED BY <1>1, <2>1, GrantsStay DEF RefreshInv, StillToWrite
  <1>8. QED BY <1>4, <1>5, <1>6, <1>7, GrantsStay DEF RefreshInv

(* The provider answers a refresh: with the token of the copy, or another.  *)
LEMMA RefreshKeeps ==
  ASSUME RefreshInv, [Next]_vars, NEW c \in Client, Refresh(c)
  PROVE  RefreshInv'
  <1>0. TypeOK /\ RedeemInv
    BY DEF RefreshInv, RedeemInv
  <1>1. PICK own \in client[c].held :
          /\ client[c].pc = "holding" /\ Accepts(own)
          /\ KeepsToken(c, own) \/ RotatesToken(c, own)
    BY DEF Refresh
  <1>2. PICK v \in User : v = client[c].user
    BY <1>0, RefreshTypes
  <1>3. /\ own.grant \in Attempt /\ own.grant \in Stored(v)
        /\ own.gen \in Nat /\ newest[own.grant] \in Nat
        /\ client[c].held = {own}
    BY <1>0, <1>1, <1>2, RefreshTypes DEF RefreshInv, GrantsKept
  <1>4. /\ UNCHANGED <<token, attempt, link, strict, faults>>
        /\ \A d \in Client \ {c} : client'[d] = client[d]
        /\ client'[c].pc = "refreshed" /\ client'[c].user = v /\ client'[c].held = {own}
    BY <1>0, <1>1, <1>2, <1>3
       DEF Refresh, KeepsToken, RotatesToken, redeemVars, TypeOK, Copy
  <1>5. \/ client'[c].gen = own.gen /\ newest' = newest
        \/ /\ client'[c].gen = newest[own.grant] + 1
           /\ newest' = [newest EXCEPT ![own.grant] = newest[own.grant] + 1]
    <2>1. client[c] \in Copy
      BY <1>0 DEF TypeOK
    <2>2. KeepsToken(c, own) => client'[c].gen = own.gen /\ newest' = newest
      BY <1>0, <2>1 DEF KeepsToken, TypeOK, Copy
    <2>3. RotatesToken(c, own) =>
            /\ client'[c].gen = newest[own.grant] + 1
            /\ newest' = [newest EXCEPT ![own.grant] = newest[own.grant] + 1]
      BY <1>0, <2>1 DEF RotatesToken, TypeOK, Copy
    <2>4. QED BY <1>1, <2>2, <2>3
  <1>6. \A d \in Client : \A held \in client'[d].held : held.grant \in Stored(client[d].user)'
    BY <1>3, <1>4, CopiesKept
  <1>7. \A d \in Client : client'[d].held = client[d].held /\ client'[d].user = client[d].user
    BY <1>2, <1>3, <1>4
  <1>8. CASE client'[c].gen = own.gen /\ newest' = newest
    <2>1. GrantsKept'
      BY <1>4, <1>6, <1>8, GrantsStay DEF GrantsKept
    <2>2. NotNewer'
      BY <1>4, <1>7, <1>8 DEF RefreshInv, NotNewer
    <2>3. \A d \in Client : \A held \in client[d].held : Rotated(d, held)' <=> Rotated(d, held)
      BY <1>1, <1>3, <1>4, <1>8 DEF Rotated
    <2>4. OneRotates'
      <3>1. SUFFICES ASSUME strict, NEW d \in Client, NEW held \in client[d].held, Rotated(d, held)
                     PROVE  Alone(d, held)'
        BY <1>4, <1>7, <2>3 DEF OneRotates
      <3>2. Alone(d, held) /\ d # c
        BY <1>1, <3>1 DEF RefreshInv, OneRotates, Rotated
      <3>3. QED BY <1>4, <1>7, <1>8, <2>3, <3>2 DEF Alone
    <2>5. \A u \in User : Writer(u) => Writer(u)'
      BY <1>7, <2>3 DEF Writer
    <2>6. StillToWrite'
      BY <1>4, <1>8, <2>5, GrantsStay DEF RefreshInv, StillToWrite
    <2>7. QED BY <2>1, <2>2, <2>4, <2>6, GrantsStay DEF RefreshInv
  <1>9. CASE /\ client'[c].gen = newest[own.grant] + 1
             /\ newest' = [newest EXCEPT ![own.grant] = newest[own.grant] + 1]
    <2>1. /\ newest'[own.grant] = newest[own.grant] + 1
          /\ \A x \in Attempt \ {own.grant} : newest'[x] = newest[x]
          /\ \A x \in Attempt : newest[x] \in Nat
      BY <1>0, <1>3, <1>9, RefreshTypes DEF TypeOK
    <2>2. GrantsKept'
      <3>1. In(own.grant, "done")'
        BY <1>3, <1>4 DEF Stored, In
      <3>2. QED BY <1>4, <1>6, <2>1, <3>1, GrantsStay DEF GrantsKept
    <2>3. /\ \A u \in User : \A row \in link[u] : row.grant \in Attempt /\ row.gen \in Nat
          /\ \A d \in Client : \A held \in client[d].held : held.grant \in Attempt /\ held.gen \in Nat
      BY <1>0, RefreshTypes
    <2>4. NotNewer'
      BY <1>3, <1>4, <1>7, <2>1, <2>3 DEF RefreshInv, NotNewer
    <2>5. strict => own.gen = newest[own.grant]
      BY <1>1 DEF Accepts
    <2>6. \A d \in Client \ {c} : \A held \in client[d].held : Rotated(d, held)' <=> Rotated(d, held)
      BY <1>4 DEF Rotated
    <2>7. ASSUME strict
          PROVE  \A d \in Client \ {c} : \A held \in client[d].held :
                   Rotated(d, held) => held.grant # own.grant
      BY <1>1, <2>5, <2>7 DEF RefreshInv, OneRotates, Alone
    <2>8. OneRotates'
      <3>1. ASSUME strict, NEW d \in Client \ {c}, NEW held \in client[d].held, Rotated(d, held)
            PROVE  Alone(d, held)'
        <4>1. Alone(d, held) /\ held.grant # own.grant
          BY <2>7, <3>1 DEF RefreshInv, OneRotates
        <4>2. newest'[held.grant] = newest[held.grant] /\ client'[d] = client[d]
          BY <1>4, <2>1, <2>3, <4>1
        <4>3. \A e \in Client \ {d} : \A other \in client'[e].held :
                other.grant = held.grant => other.gen # client'[d].gen /\ ~Rotated(e, other)'
          BY <1>3, <1>7, <2>6, <4>1, <4>2 DEF Alone
        <4>4. QED BY <1>4, <4>1, <4>2, <4>3 DEF Alone
      <3>2. ASSUME strict PROVE Alone(c, own)'
        <4>1. \A u \in User : \A row \in link[u] :
                row.grant = own.grant => row.gen # client'[c].gen
          BY <1>3, <1>9, <2>3, <3>2 DEF RefreshInv, NotNewer
        <4>2. \A d \in Client \ {c} : \A other \in client[d].held :
                other.grant = own.grant => other.gen # client'[c].gen
          BY <1>3, <1>9, <2>3, <3>2 DEF RefreshInv, NotNewer
        <4>3. \A d \in Client \ {c} : \A other \in client[d].held :
                other.grant = own.grant => ~Rotated(d, other)'
          BY <2>6, <2>7, <3>2
        <4>4. QED BY <1>4, <1>7, <1>9, <2>1, <4>1, <4>2, <4>3 DEF Alone
      <3>3. QED BY <1>3, <1>4, <1>7, <2>6, <3>1, <3>2 DEF OneRotates
    <2>9. StillToWrite'
      <3>1. SUFFICES ASSUME strict, faults = 0, NEW u \in User, OneGrant(u), NEW row \in link[u]
                     PROVE  row.gen = newest'[row.grant] \/ Writer(u)'
        BY <1>4, GrantsStay DEF StillToWrite
      <3>2. CASE u = v
        <4>1. Rotated(c, own)'
          BY <1>3, <1>4, <1>9, <2>5, <3>1 DEF Rotated
        <4>2. QED BY <1>4, <3>2, <4>1 DEF Writer
      <3>3. CASE u # v
        <4>1. row.grant \in Stored(u) /\ row.grant \in Attempt
          BY <2>3, <3>1 DEF RefreshInv, GrantsKept
        <4>2. row.grant # own.grant
          BY <1>3, <3>3, <4>1 DEF Stored, Grants
        <4>3. newest'[row.grant] = newest[row.grant]
          BY <2>1, <4>1, <4>2
        <4>4. Writer(u) => Writer(u)'
          BY <1>2, <1>4, <1>7, <2>6, <3>3 DEF Writer
        <4>5. QED BY <3>1, <4>3, <4>4 DEF RefreshInv, StillToWrite
      <3>4. QED BY <3>2, <3>3
    <2>10. QED BY <2>2, <2>4, <2>8, <2>9, GrantsStay DEF RefreshInv
  <1>10. QED BY <1>5, <1>8, <1>9

(* A client writes what it was given to the row, whatever that is by now.   *)
LEMMA UpdateKeeps ==
  ASSUME RefreshInv, [Next]_vars, NEW c \in Client, UpdateTokens(c)
  PROVE  RefreshInv'
  <1>0. TypeOK /\ RedeemInv
    BY DEF RefreshInv, RedeemInv
  <1>1. PICK own \in client[c].held :
          /\ link' = [link EXCEPT ![client[c].user] = {Updated(c, row, own) : row \in @}]
          /\ Hold(c, own)
    BY DEF UpdateTokens
  <1>2. PICK v \in User : v = client[c].user
    BY <1>0, RefreshTypes
  <1>3. /\ own.grant \in Attempt /\ own.grant \in Stored(v)
        /\ own.gen \in Nat /\ client[c].gen \in Nat
        /\ client[c].held = {own} /\ client[c].pc = "refreshed"
    BY <1>0, <1>1, <1>2, RefreshTypes DEF RefreshInv, GrantsKept, UpdateTokens
  <1> DEFINE new == [access |-> own.grant, grant |-> own.grant, gen |-> client[c].gen]
  <1>4. /\ UNCHANGED <<token, attempt, newest, strict, faults>>
        /\ \A d \in Client \ {c} : client'[d] = client[d]
        /\ client'[c].pc = "holding" /\ client'[c].user = v /\ client'[c].held = {new}
    BY <1>0, <1>1, <1>2 DEF UpdateTokens, Hold, redeemVars, TypeOK, Copy
  <1>5. new.grant = own.grant /\ new.gen = client[c].gen
    OBVIOUS
  <1> HIDE DEF new
  <1>6. /\ \A u \in User \ {v} : link'[u] = link[u]
        /\ link'[v] = {Updated(c, row, own) : row \in link[v]}
    BY <1>0, <1>1, <1>2 DEF TypeOK
  <1>7. \A row \in Fields :
          /\ Updated(c, row, own).access = own.grant
          /\ client[c].gen = own.gen => /\ Updated(c, row, own).grant = row.grant
                                        /\ Updated(c, row, own).gen = row.gen
          /\ client[c].gen # own.gen => /\ Updated(c, row, own).grant = own.grant
                                        /\ Updated(c, row, own).gen = client[c].gen
    BY DEF Updated, Fields
  (* A row is one there was, or has the grant and the token of the client.  *)
  <1>8. ASSUME NEW u \in User, NEW row \in link'[u]
        PROVE  \E old \in link[u] :
                 /\ row.access \in {old.access, own.grant}
                 /\ u # v => row.access = old.access
                 /\ \/ row.grant = old.grant /\ row.gen = old.gen /\ (u = v => client[c].gen = own.gen)
                    \/ /\ u = v /\ row.grant = own.grant /\ row.gen = client[c].gen
                       /\ client[c].gen # own.gen
    <2>1. CASE u = v
      <3>1. PICK old \in link[v] : row = Updated(c, old, own)
        BY <1>6, <1>8, <2>1
      <3>2. old \in Fields
        BY <1>0, RefreshTypes
      <3>3. QED BY <1>7, <2>1, <3>1, <3>2
    <2>2. CASE u # v
      BY <1>6, <1>8, <2>2
    <2>3. QED BY <2>1, <2>2
  <1>9. GrantsKept'
    <2>1. \A u : Stored(u)' = Stored(u)
      BY <1>4 DEF Stored, Grants, Row, In
    <2>2. \A d \in Client : \A held \in client'[d].held : held.grant \in Stored(client[d].user)'
      BY <1>3, <1>4, <1>5, CopiesKept
    <2>3. \A u \in User : \A row \in link'[u] : row.access \in Stored(u) /\ row.grant \in Stored(u)
      <3>1. SUFFICES ASSUME NEW u \in User, NEW row \in link'[u]
                     PROVE  row.access \in Stored(u) /\ row.grant \in Stored(u)
        OBVIOUS
      <3>2. \A old \in link[u] : old.access \in Stored(u) /\ old.grant \in Stored(u)
        BY DEF RefreshInv, GrantsKept
      <3>3. QED BY <1>3, <1>8, <3>1, <3>2
    <2>4. QED BY <1>4, <2>1, <2>2, <2>3, GrantsStay DEF GrantsKept
  <1>10. strict /\ client[c].gen # own.gen => Alone(c, own)
    BY <1>3 DEF RefreshInv, OneRotates, Rotated
  <1>11. strict => client[c].gen <= newest[own.grant]
    BY <1>3, <1>10 DEF Alone, RefreshInv, NotNewer
  <1>12. NotNewer'
    <2>1. SUFFICES ASSUME strict PROVE NotNewer'
      BY <1>4 DEF NotNewer
    <2>2. ASSUME NEW u \in User, NEW row \in link'[u] PROVE row.gen <= newest[row.grant]
      BY <1>8, <1>11, <2>1, <2>2 DEF RefreshInv, NotNewer
    <2>3. ASSUME NEW d \in Client, NEW held \in client'[d].held PROVE held.gen <= newest[held.grant]
      BY <1>4, <1>5, <1>11, <2>1, <2>3 DEF RefreshInv, NotNewer
    <2>4. QED BY <1>4, <2>2, <2>3 DEF NotNewer
  <1>13. OneRotates'
    <2>1. SUFFICES ASSUME strict, NEW d \in Client, NEW held \in client'[d].held, Rotated(d, held)'
                   PROVE  Alone(d, held)'
      BY <1>4 DEF OneRotates
    <2>2. d # c /\ client'[d] = client[d] /\ Rotated(d, held) /\ held \in client[d].held
      BY <1>4, <2>1 DEF Rotated
    <2>3. Alone(d, held)
      BY <2>1, <2>2 DEF RefreshInv, OneRotates
    <2>4. own.grant = held.grant => own.gen # client[d].gen /\ client[c].gen = own.gen
      BY <1>3, <2>2, <2>3 DEF Alone, Rotated
    <2>5. ASSUME NEW u \in User, NEW row \in link'[u], row.grant = held.grant
          PROVE  row.gen # client[d].gen
      <3>1. \A old \in link[u] : old.grant = held.grant => old.gen # client[d].gen
        BY <2>3 DEF Alone
      <3>2. QED BY <1>8, <2>4, <2>5, <3>1
    <2>6. \A other \in client'[c].held :
            other.grant = held.grant => other.gen # client[d].gen /\ ~Rotated(c, other)'
      BY <1>4, <1>5, <2>4 DEF Rotated
    <2>7. \A e \in Client \ {c, d} : \A other \in client'[e].held :
            other.grant = held.grant => other.gen # client[d].gen /\ ~Rotated(e, other)'
      BY <1>4, <2>3 DEF Alone, Rotated
    <2>8. client[d].gen = newest[held.grant]
      BY <2>3 DEF Alone
    <2>9. QED BY <1>4, <2>2, <2>5, <2>6, <2>7, <2>8 DEF Alone
  <1>14. StillToWrite'
    <2>1. SUFFICES ASSUME strict, faults = 0, NEW u \in User, OneGrant(u), NEW row \in link'[u]
                   PROVE  row.gen = newest[row.grant] \/ Writer(u)'
      BY <1>4, GrantsStay DEF StillToWrite
    <2>2. PICK old \in link[u] :
            \/ row.grant = old.grant /\ row.gen = old.gen /\ (u = v => client[c].gen = own.gen)
            \/ row.grant = own.grant /\ row.gen = client[c].gen /\ client[c].gen # own.gen
      BY <1>8, <2>1
    <2>3. CASE row.grant = own.grant /\ row.gen = client[c].gen /\ client[c].gen # own.gen
      BY <1>10, <2>1, <2>3 DEF Alone
    <2>4. CASE row.grant = old.grant /\ row.gen = old.gen /\ (u = v => client[c].gen = own.gen)
      <3>1. old.gen = newest[old.grant] \/ Writer(u)
        BY <2>1 DEF RefreshInv, StillToWrite
      <3>2. ASSUME Writer(u) PROVE Writer(u)'
        <4>1. PICK d \in Client : client[d].user = u /\ \E held \in client[d].held : Rotated(d, held)
          BY <3>2 DEF Writer
        <4>2. d # c
          BY <1>2, <1>3, <2>4, <4>1 DEF Rotated
        <4>3. QED BY <1>4, <4>1, <4>2 DEF Writer, Rotated
      <3>3. QED BY <2>4, <3>1, <3>2
    <2>5. QED BY <2>2, <2>3, <2>4
  <1>15. QED BY <1>9, <1>12, <1>13, <1>14, GrantsStay DEF RefreshInv

LEMMA RefreshStep == ASSUME RefreshInv, [Next]_vars PROVE RefreshInv'
  <1>1. ASSUME NEW c \in Client, UseLink(c) PROVE RefreshInv'
    BY <1>1, CopyKeeps, RefreshKeeps, UpdateKeeps, RefreshTypes, SomeToken DEF UseLink
  <1>2. ASSUME NEW u \in User, Disconnect(u) PROVE RefreshInv'
    BY <1>2, DisconnectKeeps
  <1>3. ASSUME NEW a \in Attempt, StoreGrant(a) PROVE RefreshInv'
    BY <1>3, StoreKeeps
  <1>4. ASSUME NEW a \in Attempt, Redeem(a), ~StoreGrant(a) PROVE RefreshInv'
    <2>1. UNCHANGED <<link, client, newest, strict>>
      BY <1>4 DEF Redeem, Present, Select, Consume, LookUser, SignIn, Exchange,
           InstallWorkspace, Connect, Break, refreshVars
    <2>2. QED BY <2>1, RefreshElsewhere
  <1>5. ASSUME NEW t \in Token, Issue(t) \/ Expire(t) PROVE RefreshInv'
    <2>1. UNCHANGED <<link, client, newest, strict>>
      BY <1>5, Issued DEF Expire, refreshVars
    <2>2. QED BY <2>1, RefreshElsewhere
  <1>6. CASE UNCHANGED vars
    BY <1>6, RefreshElsewhere DEF vars, refreshVars
  <1>7. QED BY <1>1, <1>2, <1>3, <1>4, <1>5, <1>6 DEF Next

(* Where a user connected once, the stored refresh token is one that the    *)
(* provider accepts whenever no refresh is under way, however many clients  *)
(* refresh with copies of whatever age.                                     *)
THEOREM StoredTokenWorksHolds == Spec => []StoredTokenWorks
  <1>1. RefreshInv => StoredTokenWorks
    <2>1. SUFFICES ASSUME RefreshInv, NEW u \in User, faults = 0, OneGrant(u),
                          \A c \in Client : ~(client[c].pc = "refreshed" /\ client[c].user = u),
                          NEW row \in link[u]
                   PROVE  row.access = row.grant /\ Accepts(row)
      BY DEF StoredTokenWorks
    <2>2. row.access \in Grants(u) /\ row.grant \in Grants(u)
      BY <2>1 DEF RefreshInv, GrantsKept, Stored
    <2>3. ~Writer(u)
      BY <2>1 DEF Writer, Rotated
    <2>4. QED BY <2>1, <2>2, <2>3 DEF RefreshInv, StillToWrite, OneGrant, Accepts
  <1>2. QED BY <1>1, RefreshInit, RefreshStep, PTL DEF Spec
==============================================================================
