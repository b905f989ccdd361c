----------------------------- MODULE Credentials -----------------------------
(***************************************************************************)
(* How a user signs in and connects other services.  A token of one use is *)
(* issued, sent out and comes back with a request: a magic link            *)
(* (auth/routes.py), a Telegram deep link (channels/telegram.py), the      *)
(* state of a Slack install (channels/slack.py) or of an integration's     *)
(* OAuth flow (integrations).  The request takes the token, then exchanges *)
(* its code and writes what it was for: one transaction each, but for the  *)
(* magic link.  The clients of an integration share the stored tokens and  *)
(* refresh them, each with a copy of its own.                              *)
(***************************************************************************)
EXTENDS Naturals

CONSTANTS
  User, External,               \* users; identities at a channel
  NoUser,
  Token, Attempt,               \* tokens; requests that present one
  Client,                       \* clients of the integration
  Purposes,                     \* bound: what each token will be issued for
  MaxGen,                       \* bound: rotations of a refresh token
  MaxFaults                     \* bound: calls that fail, processes that die

Kind == {"magic", "telegram", "slack", "oauth"}

ASSUME CredentialsAssumption ==
  /\ Purposes \subseteq [Token -> [kind : Kind, user : User]]
  /\ Token # {} /\ External # {} /\ User # {}
  /\ NoUser \notin User /\ MaxGen \in Nat /\ MaxFaults \in Nat

Stage == {"idle", "presented", "locked", "looked", "taken", "exchanged", "installed",
          "done", "failed"}
TokenRow == [status : {"none", "live", "used", "expired"}, kind : Kind, user : User]
Request == [pc : Stage, token : Token, at : Kind, ext : External,
            seen : BOOLEAN, took : BOOLEAN]
Fields == [access : Attempt, grant : Attempt, gen : 0..MaxGen]
Rows == {{}} \cup {{f} : f \in Fields}      \* of one user: the key of the table
Copy == [pc : {"idle", "holding", "refreshed"}, user : User, held : Rows, gen : 0..MaxGen]

VARIABLES
  token,                        \* rows of the three token tables
  attempt,                      \* where each request stands
  account,                      \* the users there are, by their email
  external,                     \* rows of channel_links: whose an identity is
  workspace,                    \* slack_workspaces: the install whose bot token it holds
  link,                         \* rows of the integration's table, by user
  client,                       \* where each client stands
  newest,                       \* the refresh token the provider issued last, by grant
  strict,                       \* does the provider revoke the ones before?
  faults

redeemVars == <<token, attempt, account, external, workspace>>
refreshVars == <<client, newest>>
vars == <<redeemVars, link, refreshVars, strict, faults>>

TypeOK ==
  /\ token \in [Token -> TokenRow]
  /\ attempt \in [Attempt -> Request]
  /\ account \subseteq User
  /\ external \in [External -> User \cup {NoUser}]
  /\ workspace \subseteq Attempt /\ (\A a, b \in workspace : a = b)
  /\ link \in [User -> Rows]
  /\ client \in [Client -> Copy]
  /\ newest \in [Attempt -> 0..MaxGen]
  /\ strict \in BOOLEAN /\ faults \in 0..MaxFaults

Fault == faults < MaxFaults /\ faults' = faults + 1
In(a, s) == attempt[a].pc = s
Row(a) == token[attempt[a].token]
To(a, s) == attempt' = [attempt EXCEPT ![a].pc = s]

Idle == [pc |-> "idle", token |-> CHOOSE t \in Token : TRUE, at |-> "magic",
         ext |-> CHOOSE e \in External : TRUE, seen |-> FALSE, took |-> FALSE]
NoClient == [pc |-> "idle", user |-> CHOOSE u \in User : TRUE, held |-> {}, gen |-> 0]

(* A request that took nothing has ended. *)
Refused(a) == attempt' = [attempt EXCEPT ![a] = [Idle EXCEPT !.pc = "failed"]]

Init ==
  /\ \E p \in Purposes :
       token = [t \in Token |-> [status |-> "none", kind |-> p[t].kind, user |-> p[t].user]]
  /\ attempt = [a \in Attempt |-> Idle]
  /\ account = {}
  /\ external = [e \in External |-> NoUser]
  /\ workspace = {}
  /\ link = [u \in User |-> {}]
  /\ client = [c \in Client |-> NoClient]
  /\ newest = [a \in Attempt |-> 0]
  /\ strict \in BOOLEAN /\ faults = 0

-----------------------------------------------------------------------------
(* A token of this kind is made for a user, and goes into a link.           *)
NewToken(t, kind) ==
  /\ token[t].status = "none" /\ token[t].kind = kind
  /\ token' = [token EXCEPT ![t].status = "live"]

MailMagicLink(t) == NewToken(t, "magic")
MintLinkToken(t) == NewToken(t, "telegram")
InstallUrl(t) == NewToken(t, "slack")
ConnectUrl(t) == NewToken(t, "oauth")

Issue(t) ==
  /\ MailMagicLink(t) \/ MintLinkToken(t) \/ InstallUrl(t) \/ ConnectUrl(t)
  /\ UNCHANGED <<attempt, account, external, workspace, link, refreshVars, strict, faults>>

Expire(t) ==
  /\ token[t].status = "live"
  /\ token' = [token EXCEPT ![t].status = "expired"]
  /\ UNCHANGED <<attempt, account, external, workspace, link, refreshVars, strict, faults>>

(* A request arrives with a token, perhaps not the first: links are clicked *)
(* twice, and a webhook without an answer is repeated.                      *)
Present(a, t, k, e) ==
  /\ In(a, "idle") /\ token[t].status # "none"
  /\ attempt' = [attempt EXCEPT ![a].pc = "presented", ![a].token = t, ![a].at = k,
                                ![a].ext = e]
  /\ UNCHANGED <<token, account, external, workspace, link, refreshVars, strict, faults>>

Locked(t) == \E b \in Attempt : attempt[b].token = t /\ attempt[b].pc \in {"locked", "looked"}

(* Faulty variant of Select: the row is read without FOR UPDATE. *)
SelectPlainly(a) ==
  /\ In(a, "presented")
  /\ \/ Row(a).status = "live" /\ Row(a).kind = attempt[a].at /\ To(a, "locked")
     \/ (Row(a).status # "live" \/ Row(a).kind # attempt[a].at) /\ Refused(a)
  /\ UNCHANGED <<token, account, external, workspace, link, refreshVars, strict, faults>>

(* SELECT ... FOR UPDATE: a request waits for one that holds the row; then  *)
(* the row is of this kind, not used and not expired, or nothing is done.   *)
(* The address of a magic link may have left the allowlist.                 *)
Select(a) ==
  /\ In(a, "presented") /\ ~Locked(attempt[a].token)
  /\ \/ Row(a).status = "live" /\ Row(a).kind = attempt[a].at /\ To(a, "locked")
     \/ (Row(a).status # "live" \/ Row(a).kind # attempt[a].at) /\ Refused(a)
     \/ attempt[a].at = "magic" /\ Refused(a)
  /\ UNCHANGED <<token, account, external, workspace, link, refreshVars, strict, faults>>

(* consume marks the row and commits; what the token is for comes after.    *)
Consume(a) ==
  /\ In(a, "locked") /\ attempt[a].at # "magic"
  /\ token' = [token EXCEPT ![attempt[a].token].status = "used"]
  /\ attempt' = [attempt EXCEPT ![a].pc = "taken", ![a].took = TRUE]
  /\ UNCHANGED <<account, external, workspace, link, refreshVars, strict, faults>>

(* verify_magic_link marks the row and, in the same transaction, looks for  *)
(* a user of this address.                                                  *)
LookUser(a) ==
  /\ In(a, "locked") /\ attempt[a].at = "magic"
  /\ attempt' = [attempt EXCEPT ![a].pc = "looked", ![a].seen = Row(a).user \in account]
  /\ UNCHANGED <<token, account, external, workspace, link, refreshVars, strict, faults>>

(* Faulty variant of SignIn: the token is marked by a transaction of its    *)
(* own, which stands when the user's row cannot be inserted.                *)
SignInMarkedApart(a) ==
  /\ In(a, "looked")
  /\ token' = [token EXCEPT ![attempt[a].token].status = "used"]
  /\ \/ /\ account' = account \cup {Row(a).user} /\ UNCHANGED faults
        /\ attempt' = [attempt EXCEPT ![a].pc = "done", ![a].took = TRUE]
     \/ /\ UNCHANGED account /\ Fault
        /\ attempt' = [attempt EXCEPT ![a].pc = "failed", ![a].took = TRUE]
  /\ UNCHANGED <<external, workspace, link, refreshVars, strict>>

(* It inserts the user it did not find, and commits.  An address is unique: *)
(* if another request inserted it meanwhile all is undone, token included.  *)
SignIn(a) ==
  /\ In(a, "looked")
  /\ IF ~attempt[a].seen /\ Row(a).user \in account
       THEN Refused(a) /\ UNCHANGED <<token, account>>
       ELSE /\ token' = [token EXCEPT ![attempt[a].token].status = "used"]
            /\ account' = account \cup {Row(a).user}
            /\ attempt' = [attempt EXCEPT ![a].pc = "done", ![a].took = TRUE]
  /\ UNCHANGED <<external, workspace, link, refreshVars, strict, faults>>

(* exchange_code, oauth_v2_access: refused, incomplete, or a new grant.     *)
Exchange(a) ==
  /\ In(a, "taken") /\ attempt[a].at \in {"slack", "oauth"}
  /\ \/ To(a, "exchanged") /\ UNCHANGED faults
     \/ To(a, "failed") /\ Fault
  /\ UNCHANGED <<token, account, external, workspace, link, refreshVars, strict>>

(* slack_workspaces.upsert: a new install overwrites the row, its bot token *)
(* and the one who installed it.                                            *)
InstallWorkspace(a) ==
  /\ In(a, "exchanged") /\ attempt[a].at = "slack"
  /\ workspace' = {a}
  /\ To(a, "installed")
  /\ UNCHANGED <<token, account, external, link, refreshVars, strict, faults>>

(* Faulty variant of Connect: the identity goes to whoever came last. *)
ConnectUpsert(a) ==
  /\ \/ In(a, "taken") /\ attempt[a].at = "telegram"
     \/ In(a, "installed")
  /\ external' = [external EXCEPT ![attempt[a].ext] = Row(a).user]
  /\ To(a, "done")
  /\ UNCHANGED <<token, account, workspace, link, refreshVars, strict, faults>>

(* channel_links.create: an identity that is linked already stays as it is, *)
(* and the request ends otherwise.                                          *)
CreateLink(a, otherwise) ==
  IF external[attempt[a].ext] = NoUser
    THEN external' = [external EXCEPT ![attempt[a].ext] = Row(a).user] /\ To(a, "done")
    ELSE UNCHANGED external /\ To(a, otherwise)

(* The Telegram account is linked, or the user is told of the failure. *)
Onboard(a) == In(a, "taken") /\ attempt[a].at = "telegram" /\ CreateLink(a, "failed")

(* The Slack callback calls it a success either way. *)
LinkInstaller(a) == In(a, "installed") /\ CreateLink(a, "done")

Connect(a) ==
  /\ Onboard(a) \/ LinkInstaller(a)
  /\ UNCHANGED <<token, account, workspace, link, refreshVars, strict, faults>>

(* The tokens of the new grant replace the whole row. *)
Upsert(u, a) == link' = [link EXCEPT ![u] = {[access |-> a, grant |-> a, gen |-> 0]}]

(* The callback of an integration. *)
StoreGrant(a) ==
  /\ In(a, "exchanged") /\ attempt[a].at = "oauth"
  /\ Upsert(Row(a).user, a)
  /\ To(a, "done")
  /\ UNCHANGED <<token, account, external, workspace, refreshVars, strict, faults>>

(* The process stops, or a write fails: what is not committed is undone. *)
Break(a) ==
  /\ attempt[a].pc \in {"presented", "locked", "looked", "taken", "exchanged",
                       "installed"} /\ Fault
  /\ IF attempt[a].took THEN To(a, "failed") ELSE Refused(a)
  /\ UNCHANGED <<token, account, external, workspace, link, refreshVars, strict>>

DeleteRow(u) == link' = [link EXCEPT ![u] = {}]

(* DELETE /integrations/...: the row goes, whoever holds a copy of it. *)
Disconnect(u) ==
  /\ link[u] # {} /\ DeleteRow(u)
  /\ UNCHANGED <<redeemVars, refreshVars, strict, faults>>

-----------------------------------------------------------------------------
(* for_user copies the row; without one there is no client. *)
ForUser(c, u) ==
  /\ client[c].pc = "idle" /\ link[u] # {}
  /\ client' = [client EXCEPT ![c].pc = "holding", ![c].user = u, ![c].held = link[u]]
  /\ UNCHANGED <<redeemVars, link, newest, strict, faults>>

Accepts(row) == strict => row.gen = newest[row.grant]

(* refresh_access_token: the provider returns no other refresh token...     *)
KeepsToken(c, row) ==
  client' = [client EXCEPT ![c].pc = "refreshed", ![c].gen = row.gen] /\ UNCHANGED newest

(* ... or another one, and may accept no longer the one that was used.      *)
RotatesToken(c, row) ==
  LET g == newest[row.grant] IN
  /\ g < MaxGen
  /\ newest' = [newest EXCEPT ![row.grant] = g + 1]
  /\ client' = [client EXCEPT ![c].pc = "refreshed", ![c].gen = g + 1]

(* _ensure_fresh_token with the refresh token of the copy. *)
Refresh(c) ==
  /\ client[c].pc = "holding"
  /\ \E row \in client[c].held :
       /\ Accepts(row)
       /\ KeepsToken(c, row) \/ RotatesToken(c, row)
  /\ UNCHANGED <<redeemVars, link, strict, faults>>

(* What update_tokens makes of a row: the refresh token is written if it is *)
(* another than the copy's.                                                 *)
Updated(c, row, held) ==
  [row EXCEPT !.access = held.grant,
              !.grant = IF client[c].gen = held.gen THEN @ ELSE held.grant,
              !.gen = IF client[c].gen = held.gen THEN @ ELSE client[c].gen]

Hold(c, held) ==
  client' = [client EXCEPT ![c].pc = "holding",
               ![c].held = {[access |-> held.grant, grant |-> held.grant,
                             gen |-> client[c].gen]}]

(* Faulty variant of UpdateTokens: a rotated refresh token is not written.  *)
UpdateAccessOnly(c) ==
  /\ client[c].pc = "refreshed"
  /\ \E held \in client[c].held :
       /\ link' = [link EXCEPT ![client[c].user] =
                     {[row EXCEPT !.access = held.grant] : row \in @}]
       /\ Hold(c, held)
  /\ UNCHANGED <<redeemVars, newest, strict, faults>>

(* update_tokens: UPDATE ... WHERE user_id, whatever is in the row by now.  *)
UpdateTokens(c) ==
  /\ client[c].pc = "refreshed"
  /\ \E held \in client[c].held :
       /\ link' = [link EXCEPT ![client[c].user] = {Updated(c, row, held) : row \in @}]
       /\ Hold(c, held)
  /\ UNCHANGED <<redeemVars, newest, strict, faults>>

(* A client is dropped after its request; a refresh may end with nothing    *)
(* written, as its process stops or the write fails.                        *)
DropClient(c) ==
  /\ \/ client[c].pc = "holding" /\ UNCHANGED faults
     \/ client[c].pc = "refreshed" /\ Fault
  /\ client' = [client EXCEPT ![c] = NoClient]
  /\ UNCHANGED <<redeemVars, link, newest, strict>>

-----------------------------------------------------------------------------
Redeem(a) ==
  \/ \E t \in Token, k \in Kind, e \in External : Present(a, t, k, e)
  \/ Select(a) \/ Consume(a) \/ LookUser(a) \/ SignIn(a)
  \/ Exchange(a) \/ InstallWorkspace(a) \/ Connect(a) \/ StoreGrant(a) \/ Break(a)

UseLink(c) ==
  \/ \E u \in User : ForUser(c, u)
  \/ Refresh(c) \/ UpdateTokens(c) \/ DropClient(c)

Next ==
  \/ \E t \in Token : Issue(t) \/ Expire(t)
  \/ \E a \in Attempt : Redeem(a)
  \/ \E u \in User : Disconnect(u)
  \/ \E c \in Client : UseLink(c)

Spec == Init /\ [][Next]_vars

-----------------------------------------------------------------------------
takers == [t \in Token |-> {a \in Attempt : attempt[a].token = t /\ attempt[a].took}]

Once == INSTANCE SingleUse

(* However many requests present a token, at any time, one of them takes it *)
(* at most: the tables and their locks keep the promise of SingleUse        *)
(* (telegram_tokens.py and oauth_state.py, consume; routes.py,              *)
(* verify_magic_link).                                                      *)
TakenOnce == Once!Spec

(* A used token was good for something, unless a call failed on the way:    *)
(* its address has an account, its identity at the channel is some user's,  *)
(* the workspace has a bot token to answer it with, its tokens were stored. *)
(* A sign-in that fails leaves its token usable.                            *)
SpentForSomething ==
  /\ TypeOK
  /\ \A a \in Attempt :
       attempt[a].took =>
         /\ attempt[a].at = "magic" => Row(a).user \in account
         /\ attempt[a].at \in {"telegram", "slack"}
              /\ attempt[a].pc \in {"done", "failed"} /\ faults = 0
              => external[attempt[a].ext] # NoUser
         /\ attempt[a].at = "slack" /\ In(a, "done") => workspace # {}
         /\ attempt[a].at = "oauth" /\ faults = 0 => ~In(a, "failed")

(* An identity at a channel stays with its user, and a user who             *)
(* disconnected an integration stays so until a flow of theirs ends: no     *)
(* client that still holds the tokens brings them back (channel_links.py,   *)
(* create; dropbox_links.py and microsoft_links.py, update_tokens).         *)
ConnectionsStay ==
  [][ /\ \A e \in External : external[e] # NoUser => external'[e] = external[e]
      /\ \A u \in User : link[u] = {} /\ link'[u] # {} =>
           \E a \in Attempt : In(a, "exchanged") /\ Row(a).user = u /\ attempt'[a].pc = "done"
    ]_vars

Grants(u) == {a \in Attempt : attempt[a].took /\ attempt[a].at = "oauth" /\ Row(a).user = u}
OneGrant(u) == \A a, b \in Grants(u) : a = b

(* Where a user connected the integration once, the stored refresh token is *)
(* one that the provider accepts when no refresh is under way and none was  *)
(* cut short, although clients refresh with copies that are out of date     *)
(* (client.py, _ensure_fresh_token).                                        *)
StoredTokenWorks ==
  \A u \in User :
    /\ faults = 0 /\ OneGrant(u)
    /\ \A c \in Client : ~(client[c].pc = "refreshed" /\ client[c].user = u)
    => \A row \in link[u] : row.access = row.grant /\ Accepts(row)
=============================================================================
