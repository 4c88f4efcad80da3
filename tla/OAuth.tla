------------------------------- MODULE OAuth -------------------------------
(***************************************************************************)
(* The public OAuth client of one user in several tabs.  A record and a    *)
(* secret hold the session for all of them, every tab keeps a copy of the  *)
(* tokens it last saw, and refreshes are executed by the leader, one at a  *)
(* time.  The authorization server rotates refresh tokens: each can be     *)
(* used once.  Several callers may use the client of one tab at a time.    *)
(***************************************************************************)
EXTENDS Naturals

CONSTANTS Tabs,        \* contexts that run a client
          Callers, In, \* the calls that may be under way at once, the tab of each
          Lane,        \* the refresh service of the leader
          Nothing,     \* no tab, no caller, no flow
          MaxToken,    \* bound on the token sets that the server issues
          Flows,       \* authorization flows, each used once
          Budget       \* bounds on page reloads, faults, ended grants and revocations

ASSUME OAuthAssumption ==
  /\ Lane \notin Callers /\ Nothing \notin Callers /\ Nothing \notin Tabs /\ Nothing \notin Flows
  /\ In \in [Callers -> Tabs]
  /\ MaxToken \in Nat \ {0} /\ Budget \in [{"reload", "fault", "end", "revoke"} -> Nat]

VARIABLES
  row,       \* the user's session record exists
  stored,    \* the token set in the secret store, 0 if there is none
  cached,    \* per tab: the token set in its memory
  host,      \* the tab that leads
  task,      \* per actor: the operation it executes
  pending,   \* per flow: its record and secret, and the caller that removes them
  issued,    \* how many token sets were issued: they are 1 .. issued
  valid,     \* token sets whose refresh token the server accepts
  rotated,   \* token sets whose refresh token was used up
  expired,   \* token sets whose access token has expired
  spending,  \* how much of each bound is used
  races      \* which of two races has happened: "late" and "swept", for the properties only

session == <<row, stored, cached>>
server == <<issued, valid, rotated, expired>>
oauthVars == <<session, host, task, pending, server, spending, races>>

Actors == Callers \cup {Lane}
IdleTask == [pc |-> "idle", token |-> 0, read |-> FALSE, existed |-> FALSE, flow |-> Nothing,
             by |-> Nothing]

\* Steps in which an actor awaits secrets.get; `read' tells that `token' is what it found.
Reads == {"get", "reload", "reread", "load", "lookup", "restore"}
Steps == Reads \cup
  {"idle", "waiting", "answered", "request", "resolve", "insert", "store", "stored", "forget",
   "unlist", "drop", "revoke", "tidy", "sweep", "clean", "verifier", "browser", "exchange"}

Types ==
  /\ row \in BOOLEAN /\ stored \in 0..MaxToken /\ cached \in [Tabs -> 0..MaxToken]
  /\ host \in Tabs \cup {Nothing}
  /\ task \in [Actors -> [pc : Steps, token : 0..MaxToken, read : BOOLEAN, existed : BOOLEAN,
                          flow : Flows \cup {Nothing}, by : Callers \cup {Nothing}]]
  /\ pending \in [Flows -> [used : BOOLEAN, row : BOOLEAN, secret : BOOLEAN,
                            remover : Callers \cup {Nothing}]]
  /\ issued \in 0..MaxToken /\ valid \subseteq 1..issued /\ rotated \subseteq 1..issued
  /\ expired \subseteq 1..issued
  /\ spending \in [DOMAIN Budget -> Nat] /\ races \subseteq {"late", "swept"}

\* The user is signed in or not, and every tab has restored the session.
OAuthInit ==
  /\ stored \in {0, 1} /\ row = (stored = 1) /\ cached = [t \in Tabs |-> stored]
  /\ host = Nothing /\ task = [a \in Actors |-> IdleTask]
  /\ pending = [f \in Flows |-> [used |-> FALSE, row |-> FALSE, secret |-> FALSE,
                                 remover |-> Nothing]]
  /\ issued = stored /\ valid = 1..stored /\ rotated = {} /\ expired = {}
  /\ spending = [kind \in DOMAIN Budget |-> 0] /\ races = {}

----------------------------------------------------------------------------
(* What the operations are built from *)

Spend(kind) ==
  /\ spending[kind] < Budget[kind] /\ spending' = [spending EXCEPT ![kind] = spending[kind] + 1]

Go(a, pc) == task' = [task EXCEPT ![a].pc = pc]

\* An actor awaits a read of the secret.
Await(a, pc) == task' = [task EXCEPT ![a] = [IdleTask EXCEPT !.pc = pc]]

\* An actor is done.  The refresh service answers the call it executed.
Finish(a, answer) ==
  task' = [b \in Actors |->
             IF b = a THEN IdleTask
             ELSE IF a = Lane /\ b = task[Lane].by THEN [IdleTask EXCEPT !.pc = answer]
             ELSE task[b]]
Done(a) == Finish(a, "answered")
Fail(a) == Finish(a, "idle")

\* The tab in which an actor runs.
Place(a) == IF a = Lane THEN host ELSE In[a]

Keep(t, token) == cached' = [cached EXCEPT ![t] = token]

\* The secret store reads; the actor goes on later.
Read(a) ==
  /\ task[a].pc \in Reads /\ ~task[a].read
  /\ task' = [task EXCEPT ![a].read = TRUE, ![a].token = stored]
  /\ UNCHANGED <<session, host, pending, server, spending, races>>

\* An actor goes on with what was read, if there was a secret, as the copy of its tab.  In the
\* leader's tab that may replace a copy that was stored since.
Take(a) ==
  /\ task[a].read
  /\ cached' = IF task[a].token # 0 THEN [cached EXCEPT ![Place(a)] = task[a].token] ELSE cached
  /\ races' = IF task[a].token \notin {0, stored} /\ Place(a) = host THEN races \cup {"late"}
              ELSE races

----------------------------------------------------------------------------
(* getAccessToken and refresh *)

\* The copy in memory, or else the secret.  Before an expired token is refreshed the secret is
\* looked up.
Get(c) ==
  /\ task[c].pc = "idle" /\ row
  /\ IF cached[In[c]] = 0 THEN Await(c, "get")
     ELSE cached[In[c]] \in expired /\ Await(c, "reload")
  /\ UNCHANGED <<session, host, pending, server, spending, races>>

Got(c) ==
  /\ task[c].pc = "get" /\ Take(c)
  /\ IF task[c].token # 0 /\ task[c].token \in expired THEN Await(c, "reload") ELSE Fail(c)
  /\ UNCHANGED <<row, stored, host, pending, server, spending>>

\* If the secret is missing the expired token stays.
Reload(c) ==
  /\ task[c].pc = "reload" /\ Take(c)
  /\ IF task[c].token = 0 \/ task[c].token \in expired THEN Await(c, "waiting") ELSE Done(c)
  /\ UNCHANGED <<row, stored, host, pending, server, spending>>

\* The connection manager of the leader refreshes what is about to expire.
Refresh(c) ==
  /\ task[c].pc = "idle" /\ host = In[c] /\ row /\ Go(c, "waiting")
  /\ UNCHANGED <<session, host, pending, server, spending, races>>

\* A refreshed caller drops the copy of its tab and replaces it by the secret.
Answer(c) ==
  /\ task[c].pc = "answered" /\ Keep(In[c], 0)
  /\ IF row THEN Await(c, "reread") ELSE Done(c)
  /\ UNCHANGED <<row, stored, host, pending, server, spending, races>>

Reread(c) ==
  /\ task[c].pc = "reread" /\ Take(c) /\ Done(c)
  /\ UNCHANGED <<row, stored, host, pending, server, spending>>

----------------------------------------------------------------------------
(* The refresh service: refreshDirect *)

\* The handler uses the copy of its own tab, or else the secret.
StartRefresh(c) ==
  /\ host # Nothing /\ task[Lane].pc = "idle" /\ task[c].pc = "waiting"
  /\ IF row
     THEN task' = [task EXCEPT ![Lane] =
                     [IdleTask EXCEPT !.pc = IF cached[host] = 0 THEN "load" ELSE "request",
                                      !.token = cached[host], !.by = c]]
     ELSE Fail(c)
  /\ UNCHANGED <<session, host, pending, server, spending, races>>

Load ==
  /\ task[Lane].pc = "load" /\ Take(Lane)
  /\ IF task[Lane].token = 0 THEN Fail(Lane)
     ELSE task' = [task EXCEPT ![Lane].pc = "request", ![Lane].read = FALSE]
  /\ UNCHANGED <<row, stored, host, pending, server, spending>>

\* The server rotates the token.
Rotate ==
  /\ task[Lane].pc = "request" /\ task[Lane].token \in valid /\ issued < MaxToken
  /\ issued' = issued + 1
  /\ valid' = (valid \ {task[Lane].token}) \cup {issued + 1}
  /\ rotated' = rotated \cup {task[Lane].token}
  /\ task' = [task EXCEPT ![Lane].pc = "resolve", ![Lane].token = issued + 1]
  /\ UNCHANGED <<session, host, pending, expired, spending, races>>

\* invalid_grant: the session is forgotten.
RefreshRefused ==
  /\ task[Lane].pc = "request" /\ task[Lane].token \notin valid
  /\ Go(Lane, "forget")
  /\ UNCHANGED <<session, host, pending, server, spending, races>>

\* Mutant: the call is rejected and its handler tries again.
UnreachableAgain ==
  /\ task[Lane].pc = "request" /\ Spend("fault") /\ Go(task[Lane].by, "idle")
  /\ UNCHANGED <<session, host, pending, server, races>>

\* The server cannot be reached.
Unreachable ==
  /\ task[Lane].pc = "request" /\ Spend("fault") /\ Fail(Lane)
  /\ UNCHANGED <<session, host, pending, server, races>>

----------------------------------------------------------------------------
(* writeSession *)

\* The user is looked up with the new access token.
Resolve(a) ==
  /\ task[a].pc = "resolve"
  /\ task' = [task EXCEPT ![a].existed = row, ![a].pc = IF row THEN "store" ELSE "insert"]
  /\ UNCHANGED <<session, host, pending, server, spending, races>>

ResolveFails(a) ==
  /\ task[a].pc = "resolve" /\ Spend("fault") /\ Fail(a)
  /\ UNCHANGED <<session, host, pending, server, races>>

Insert(a) ==
  /\ task[a].pc = "insert" /\ row' = TRUE /\ Go(a, "store")
  /\ UNCHANGED <<stored, cached, host, pending, server, spending, races>>

\* The secret is replaced; the actor goes on later.
Store(a) ==
  /\ task[a].pc = "store" /\ stored' = task[a].token /\ Go(a, "stored")
  /\ UNCHANGED <<row, cached, host, pending, server, spending, races>>

\* Mutant: the copy in memory is not replaced.
ForgetStored(a) ==
  /\ task[a].pc = "stored" /\ Done(a)
  /\ UNCHANGED <<session, host, pending, server, spending, races>>

Remember(a) ==
  /\ task[a].pc = "stored" /\ Done(a) /\ Keep(Place(a), task[a].token)
  /\ UNCHANGED <<row, stored, host, pending, server, spending, races>>

\* The secret store refuses: a record that was inserted for it is deleted again.
StoreFails(a) ==
  /\ task[a].pc = "store" /\ Spend("fault")
  /\ row' = (row /\ task[a].existed) /\ Fail(a)
  /\ UNCHANGED <<stored, cached, host, pending, server, races>>

----------------------------------------------------------------------------
(* forgetSession and revoke *)

\* Mutant: the record is deleted first.
ForgetRecord(a) ==
  /\ task[a].pc = "forget" /\ row' = FALSE
  /\ IF row THEN Go(a, "unlist") ELSE Fail(a)
  /\ UNCHANGED <<stored, cached, host, pending, server, spending, races>>

Forget(a) ==
  /\ task[a].pc = "forget"
  /\ IF row THEN stored' = 0 /\ Go(a, "unlist") ELSE UNCHANGED stored /\ Fail(a)
  /\ UNCHANGED <<row, cached, host, pending, server, spending, races>>

\* The record's deletion fails if it is gone, and the copy stays.
Unlist(a) ==
  /\ task[a].pc = "unlist" /\ row' = FALSE
  /\ IF row THEN Go(a, "drop") ELSE Fail(a)
  /\ UNCHANGED <<stored, cached, host, pending, server, spending, races>>

Drop(a) ==
  /\ task[a].pc = "drop" /\ Keep(Place(a), 0) /\ Fail(a)
  /\ UNCHANGED <<row, stored, host, pending, server, spending, races>>

StartRevoke(c) ==
  /\ task[c].pc = "idle" /\ row /\ Spend("revoke")
  /\ IF cached[In[c]] = 0 THEN Await(c, "lookup")
     ELSE task' = [task EXCEPT ![c].pc = "revoke", ![c].token = cached[In[c]]]
  /\ UNCHANGED <<session, host, pending, server, races>>

LookedUp(c) ==
  /\ task[c].pc = "lookup" /\ Take(c)
  /\ task' = [task EXCEPT ![c].pc = IF task[c].token = 0 THEN "forget" ELSE "revoke",
                          ![c].read = FALSE]
  /\ UNCHANGED <<row, stored, host, pending, server, spending>>

\* The server takes any token; one that it does not know changes nothing.
Revoke(c) ==
  /\ task[c].pc = "revoke" /\ valid' = valid \ {task[c].token} /\ Go(c, "forget")
  /\ UNCHANGED <<session, host, pending, issued, rotated, expired, spending, races>>

RevokeFails(c) ==
  /\ task[c].pc = "revoke" /\ Spend("fault") /\ Fail(c)
  /\ UNCHANGED <<session, host, pending, server, races>>

----------------------------------------------------------------------------
(* signIn and completeRedirect *)

\* Flows whose records may be older than ten minutes.
Old == {f \in Flows : pending[f].row /\ pending[f].remover = Nothing
                      /\ ~\E c \in Callers : task[c].flow = f /\ task[c].pc = "verifier"}

\* What is pending once caller c has begun to remove the flows in old.
Removing(c, old) ==
  [f \in Flows |-> IF f \in old THEN [pending[f] EXCEPT !.remover = c] ELSE pending[f]]

StartSignIn(c, f) ==
  /\ task[c].pc = "idle" /\ ~pending[f].used
  /\ \E old \in SUBSET Old : pending' = [Removing(c, old) EXCEPT ![f].used = TRUE]
  /\ task' = [task EXCEPT ![c].pc = "clean", ![c].flow = f]
  /\ UNCHANGED <<session, host, server, spending, races>>

\* Mutant: the verifier is written before its record.
BeginBySecret(c) ==
  /\ task[c].pc = "clean" /\ \A f \in Flows : pending[f].remover # c
  /\ pending' = [pending EXCEPT ![task[c].flow].secret = TRUE] /\ Go(c, "verifier")
  /\ UNCHANGED <<session, host, server, spending, races>>

Begin(c) ==
  /\ task[c].pc = "clean" /\ \A f \in Flows : pending[f].remover # c
  /\ pending' = [pending EXCEPT ![task[c].flow].row = TRUE] /\ Go(c, "verifier")
  /\ UNCHANGED <<session, host, server, spending, races>>

KeepVerifier(c) ==
  /\ task[c].pc = "verifier"
  /\ pending' = [pending EXCEPT ![task[c].flow].secret = TRUE] /\ Go(c, "browser")
  /\ UNCHANGED <<session, host, server, spending, races>>

\* The callback arrives; without record and verifier it is refused.
Callback(c) ==
  LET p == pending[task[c].flow] IN
  /\ task[c].pc = "browser"
  /\ IF p.row /\ p.secret THEN Go(c, "exchange") ELSE Fail(c)
  /\ UNCHANGED <<session, host, pending, server, spending, races>>

\* The user cancels, or the browser cannot be opened.
Cancel(c) ==
  /\ task[c].pc = "browser" /\ Fail(c)
  /\ pending' = Removing(c, {task[c].flow})
  /\ UNCHANGED <<session, host, server, spending, races>>

\* A page that was redirected to completes a flow that another page began.
CompleteRedirect(c, f) ==
  /\ task[c].pc = "idle" /\ pending[f].row /\ pending[f].secret
  /\ task' = [task EXCEPT ![c].pc = "exchange", ![c].flow = f]
  /\ UNCHANGED <<session, host, pending, server, spending, races>>

\* The code is exchanged for tokens.  The flow is removed while they are written.
Exchange(c) ==
  /\ task[c].pc = "exchange" /\ issued < MaxToken
  /\ issued' = issued + 1 /\ valid' = valid \cup {issued + 1}
  /\ task' = [task EXCEPT ![c].pc = "resolve", ![c].token = issued + 1]
  /\ pending' = Removing(c, {task[c].flow})
  /\ UNCHANGED <<session, host, rotated, expired, spending, races>>

\* The code was used before, or the server refuses it.
ExchangeFails(c) ==
  /\ task[c].pc = "exchange" /\ Fail(c)
  /\ pending' = Removing(c, {task[c].flow})
  /\ UNCHANGED <<session, host, server, spending, races>>

\* removePending: the secret first, then the record.
RemovePending(f) ==
  /\ pending[f].remover # Nothing
  /\ pending' = [pending EXCEPT ![f] =
                   IF @.secret THEN [@ EXCEPT !.secret = FALSE]
                   ELSE [@ EXCEPT !.row = FALSE, !.remover = Nothing]]
  /\ UNCHANGED <<session, host, task, server, spending, races>>

----------------------------------------------------------------------------
(* Tabs and time *)

Lead(t) ==
  /\ host = Nothing /\ host' = t
  /\ UNCHANGED <<session, task, pending, server, spending, races>>

\* The tab of c is reloaded: what it did is lost, and c begins to restore its session.  The
\* service loses its call, which the caller repeats, when its host goes.
Restart(c) ==
  LET lost(a) == IF a = Lane THEN host = In[c] ELSE In[a] = In[c] IN
  /\ Spend("reload")
  /\ task' = [a \in Actors |->
                IF a = c THEN [IdleTask EXCEPT !.pc = "tidy"]
                ELSE IF lost(a) THEN IdleTask
                ELSE IF a = Lane /\ task[a].by # Nothing /\ lost(task[a].by)
                     THEN [task[a] EXCEPT !.by = Nothing]
                ELSE task[a]]
  /\ host' = IF host = In[c] THEN Nothing ELSE host
  /\ Keep(In[c], 0)
  /\ \E old \in SUBSET Old :
       pending' = [f \in Flows |->
                     IF pending[f].remover # Nothing /\ lost(pending[f].remover)
                     THEN [pending[f] EXCEPT !.remover = Nothing]
                     ELSE Removing(c, old)[f]]
  /\ UNCHANGED <<row, stored, server, races>>

\* restoreSessions goes on once the old flows are removed.
Tidied(c) ==
  /\ task[c].pc = "tidy" /\ \A f \in Flows : pending[f].remover # c
  /\ IF row /\ cached[In[c]] = 0 THEN Await(c, "restore") ELSE Done(c)
  /\ UNCHANGED <<session, host, pending, server, spending, races>>

\* A record without a secret is left alone unless it is older than ten minutes.
Restore(c) ==
  /\ task[c].pc = "restore" /\ Take(c)
  /\ \/ Done(c)
     \/ task[c].token = 0 /\ Go(c, "sweep")
  /\ UNCHANGED <<row, stored, host, pending, server, spending>>

\* By now the secret may be there again, or about to be.
Sweep(c) ==
  /\ task[c].pc = "sweep" /\ row' = FALSE /\ Done(c)
  /\ races' = IF stored # 0 \/ \E a \in Actors : task[a].pc = "store" THEN races \cup {"swept"}
              ELSE races
  /\ UNCHANGED <<stored, cached, host, pending, server, spending>>

Expire(t) ==
  /\ t \in 1..issued \ expired /\ expired' = expired \cup {t}
  /\ UNCHANGED <<session, host, task, pending, issued, valid, rotated, spending, races>>

\* The server ends a grant.
EndGrant(t) ==
  /\ t \in valid /\ Spend("end") /\ valid' = valid \ {t}
  /\ UNCHANGED <<session, host, task, pending, issued, rotated, expired, races>>

Write(a) == Resolve(a) \/ ResolveFails(a) \/ Insert(a) \/ Store(a) \/ Remember(a)
            \/ StoreFails(a) \/ Forget(a) \/ Unlist(a) \/ Drop(a)
Service == (\E c \in Callers : StartRefresh(c)) \/ Load \/ Rotate \/ RefreshRefused \/ Unreachable

OAuthNext ==
  \/ \E c \in Callers : Get(c) \/ Got(c) \/ Reload(c) \/ Refresh(c) \/ Answer(c) \/ Reread(c)
  \/ \E c \in Callers : StartRevoke(c) \/ LookedUp(c) \/ Revoke(c) \/ RevokeFails(c)
  \/ \E c \in Callers : Begin(c) \/ KeepVerifier(c) \/ Callback(c) \/ Cancel(c)
                            \/ Exchange(c) \/ ExchangeFails(c)
  \/ \E c \in Callers, f \in Flows : StartSignIn(c, f) \/ CompleteRedirect(c, f)
  \/ \E c \in Callers : Restart(c) \/ Tidied(c) \/ Restore(c) \/ Sweep(c)
  \/ \E a \in Actors : Read(a) \/ Write(a)
  \/ Service \/ \E f \in Flows : RemovePending(f)
  \/ \E t \in Tabs : Lead(t)
  \/ \E t \in 1..MaxToken : Expire(t) \/ EndGrant(t)

OAuthSpec == OAuthInit /\ [][OAuthNext]_oauthVars

----------------------------------------------------------------------------
(* Properties *)

\* The service executes one call, of a context that waits for it, and only in a leader.
ServiceMatches ==
  /\ task[Lane].pc # "idle" => host # Nothing
  /\ task[Lane].by # Nothing => task[task[Lane].by].pc = "waiting"

\* The variables have their types and the service executes calls that wait for it.
OAuthTypeOK == Types /\ ServiceMatches

\* Nothing has signed in or out.
Unattended == spending["revoke"] = 0 /\ \A f \in Flows : ~pending[f].used

\* As long as nobody signs in or out, a secret is always listed by the user's record, so that
\* a restart finds it and signing out removes it, whatever fails or is cut off: unless a
\* restoration swept the record away while the secret was written.
SecretIsListed == Unattended /\ "swept" \notin races => (stored # 0 => row)

\* A verifier is always listed by its pending record, so that it is removed in the end.
VerifierIsListed == \A f \in Flows : pending[f].secret => pending[f].row

\* Whatever is cut off between its steps, what holds a secret is found again by its record.
StorageIsListed == SecretIsListed /\ VerifierIsListed

\* A session is forgotten only after the server has ended it: refreshing in several tabs never
\* throws away a token that the server would accept, as long as no tab is reloaded, nobody
\* signs in or out, and no read of the secret is late in the leader's tab.
LiveSessionIsKept ==
  [][Unattended /\ spending["reload"] = 0 /\ "late" \notin races /\ stored # 0 /\ stored' = 0
       => stored \notin valid]_oauthVars

\* No tab refreshes with a token that was rotated before.
StaleIsNotReused == task[Lane].pc = "request" => task[Lane].token \notin rotated
=============================================================================
