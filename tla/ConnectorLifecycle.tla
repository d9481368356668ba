-------------------------- MODULE ConnectorLifecycle --------------------------
(***************************************************************************)
(* What may be done to the state of ConnectorState: callback, provisioning *)
(* and disconnect of integrations/connector_lifecycle_views.py (ga4 and    *)
(* search_console), and those of integrations/google_ads_views.py with the *)
(* hourly token refresh of integrations/tasks.py (google_ads).  Airbyte and*)
(* Google are external.  Sync jobs are AirbyteSync's, the sync engine is   *)
(* GoogleAdsEngine's.                                                      *)
(***************************************************************************)
EXTENDS ConnectorState

airbyte == <<sources, links>>
history == <<grant, mixed, delayed, closed, survivors>>
vars == <<provider, cred, airbyte, local, req, holder, granted, late, history>>

NoCredential == [key |-> 0, token |-> 0]
AtRest == [pc |-> "idle", key |-> 0, token |-> 0, kept |-> 0, source |-> 0, link |-> 0, rows |-> {}]

Init ==
  /\ provider \in Providers
  /\ cred = NoCredential /\ sources = <<>> /\ links = <<>>
  /\ local = [l \in Remote |-> "none"]
  /\ req = [r \in Requests |-> AtRest] /\ holder = NoRequest
  /\ granted = 0 /\ late = <<>>
  /\ grant = 0 /\ mixed = FALSE /\ delayed = FALSE /\ closed = FALSE /\ survivors = {}

-----------------------------------------------------------------------------
At(r, pc) == req[r].pc = pc
Unlocked == holder = NoRequest
AfterLock == Provisioning \ {"chosen"}
Saving == {"loaded"}
\* Rows the open transaction of another disconnect has updated.
RowsHeld(r) == UNION {req[q].rows : q \in Requests \ {r}}
Others(r, pcs) == \E q \in Requests \ {r} : req[q].pc \in pcs

Go(r, change) == req' = [req EXCEPT ![r] = change]
End(r) == /\ Go(r, AtRest)
          /\ holder' = IF holder = r THEN NoRequest ELSE holder
\* Something new is begun: what a disconnect closed is open again.
Reopen == /\ closed' = FALSE
          /\ survivors' = IF \E q \in Requests : At(q, "paused") THEN survivors ELSE {}
Begin(r, change) == At(r, "idle") /\ Go(r, change) /\ Reopen
Mix(b) == mixed' = (mixed \/ b)

\* An error of Airbyte, Google or the database, or a lost worker, at any point.
GiveUp(r) ==
  /\ ~At(r, "idle") /\ End(r)
  /\ UNCHANGED <<provider, cred, airbyte, local, granted, late, history>>

(***************************************************************************)
(* Rows of PlatformCredential.                                             *)
(***************************************************************************)
\* Mutant of Token: without a new refresh token the old one is cleared.
TokenCleared(given, kept) == given
\* set_raw_tokens(access, None) leaves the refresh token as it was loaded.
Token(given, kept) == IF given # 0 THEN given ELSE kept

\* save() of a row in memory writes every column; a row deleted meanwhile is inserted
\* again, and if another took its place the save fails.
SaveRow(r, token) ==
  /\ cred.key # 0 => Unlocked
  /\ IF cred.key \in {0, req[r].key}
     THEN /\ cred' = [key |-> req[r].key, token |-> token]
          /\ grant' = IF req[r].token # 0 THEN req[r].token ELSE IF cred.key = 0 THEN req[r].kept ELSE grant
     ELSE UNCHANGED <<cred, grant>>

\* IntegrationOAuthCallbackView: Google may give no refresh token.
StartCallback(r) ==
  /\ granted < MaxGrants /\ granted' = granted + 1
  /\ \E token \in {0, granted + 1} : Begin(r, [AtRest EXCEPT !.pc = "exchanged", !.key = granted + 1, !.token = token])
  /\ UNCHANGED <<provider, cred, airbyte, local, holder, late, grant, mixed, delayed>>

\* get_or_create; a new row is saved without tokens first.
GetOrCreate(r) ==
  /\ At(r, "exchanged") /\ Mix(Others(r, Saving))
  /\ IF cred.key = 0
     THEN /\ cred' = [key |-> req[r].key, token |-> 0] /\ grant' = 0
          /\ Go(r, [req[r] EXCEPT !.pc = "loaded"])
     ELSE /\ Go(r, [req[r] EXCEPT !.pc = "loaded", !.key = cred.key, !.kept = cred.token])
          /\ UNCHANGED <<cred, grant>>
  /\ UNCHANGED <<provider, airbyte, local, holder, granted, late, delayed, closed, survivors>>

SaveCredential(r) ==
  /\ At(r, "loaded") /\ SaveRow(r, Token(req[r].token, req[r].kept))
  /\ End(r)
  /\ UNCHANGED <<provider, airbyte, local, granted, late, mixed, delayed, closed, survivors>>

\* GoogleAdsOAuthExchangeView: one transaction, under the lock of the row.
Exchange ==
  /\ Is("google_ads") /\ Unlocked
  /\ granted < MaxGrants /\ granted' = granted + 1
  /\ \E token \in {0, granted + 1} :
       /\ cred' = [key |-> IF cred.key = 0 THEN granted + 1 ELSE cred.key, token |-> Token(token, cred.token)]
       /\ grant' = IF token # 0 THEN token ELSE IF cred.key = 0 THEN 0 ELSE grant
  /\ mixed' = (mixed \/ \E r \in Requests : req[r].pc \in Saving)
  /\ Reopen
  /\ UNCHANGED <<provider, airbyte, local, req, holder, late, delayed>>

\* refresh_google_ads_tokens: the row is loaded before Google is asked, saved after.
StartRefresh(r) ==
  /\ Is("google_ads") /\ cred.token # 0 /\ Mix(Others(r, Saving))
  /\ Begin(r, [AtRest EXCEPT !.pc = "loaded", !.key = cred.key, !.kept = cred.token])
  /\ UNCHANGED <<provider, cred, airbyte, local, holder, granted, late, grant, delayed>>

(***************************************************************************)
(* Provisioning: a source for the account, a connection from it, the row.  *)
(***************************************************************************)
\* Mutant of Authorized: any credential will do.
AuthorizedByRow == cred.key # 0
\* Without a refresh token a source cannot be configured (but for a ga4 request that brings
\* its own source_configuration, which is left out).
Authorized == cred.token # 0
StartProvision(r) ==
  /\ Authorized /\ Mix(Others(r, Provisioning))
  /\ Begin(r, [AtRest EXCEPT !.pc = IF Is("ga4") THEN "chosen" ELSE "sources",
                             !.key = IF Is("ga4") THEN cred.key ELSE 0, !.token = cred.token])
  /\ UNCHANGED <<provider, cred, airbyte, local, holder, granted, late, grant, delayed>>

\* Mutants of Locked: the lock is not waited for; the row is not read again.
LockedByAnyone(r) == cred.key = req[r].key
LockedUnread(r) == Unlocked
\* select_for_update().get(pk) finds the row chosen before, or fails.
Locked(r) == Unlocked /\ cred.key = req[r].key
Lock(r) ==
  /\ At(r, "chosen") /\ Locked(r) /\ holder' = r
  /\ Go(r, [req[r] EXCEPT !.pc = "sources", !.key = 0])
  /\ UNCHANGED <<provider, cred, airbyte, local, granted, late, history>>

\* The sources of the account all have one name; Airbyte lists them in any order.
ListSources(r) ==
  /\ At(r, "sources")
  /\ \E s \in IF sources = <<>> THEN {0} ELSE DOMAIN sources :
       Go(r, [req[r] EXCEPT !.pc = "making source", !.source = s])
  /\ UNCHANGED <<provider, cred, airbyte, local, holder, granted, late, history>>

\* google_ads configures a source it finds with the credential's token; ga4 uses it as it is.
Configured(r) == IF Is("google_ads") THEN [sources EXCEPT ![req[r].source] = req[r].token] ELSE sources

ReuseSource(r) ==
  /\ At(r, "making source") /\ req[r].source # 0
  /\ sources' = Configured(r)
  /\ Go(r, [req[r] EXCEPT !.pc = "links"])
  /\ UNCHANGED <<provider, cred, links, local, holder, granted, late, history>>

\* google_ads creates a second source when Airbyte's check rejects the first.
CreateSource(r) ==
  /\ At(r, "making source") /\ req[r].source = 0 /\ Len(sources) < MaxRemote
  /\ sources' = Append(sources, req[r].token)
  /\ \/ Go(r, [req[r] EXCEPT !.pc = "links", !.source = Len(sources) + 1]) /\ UNCHANGED holder
     \/ Is("google_ads") /\ UNCHANGED <<req, holder>>
     \/ End(r)
  /\ UNCHANGED <<provider, cred, links, local, granted, late, history>>

ListLinks(r) ==
  /\ At(r, "links")
  /\ \E l \in IF links = <<>> THEN {0} ELSE DOMAIN links :
       Go(r, [req[r] EXCEPT !.pc = "making link", !.link = l])
  /\ UNCHANGED <<provider, cred, airbyte, local, holder, granted, late, history>>

\* ga4 refuses a connection from another source; google_ads moves it to its own.
ReuseLink(r) ==
  /\ At(r, "making link") /\ req[r].link # 0
  /\ Is("ga4") => links[req[r].link] = req[r].source
  /\ links' = [links EXCEPT ![req[r].link] = req[r].source]
  /\ holder' = IF holder = r THEN NoRequest ELSE holder
  /\ Go(r, [req[r] EXCEPT !.pc = "saving", !.source = 0])
  /\ UNCHANGED <<provider, cred, sources, local, granted, late, history>>

CreateLink(r) ==
  /\ At(r, "making link") /\ req[r].link = 0 /\ Len(links) < MaxRemote
  /\ links' = Append(links, req[r].source)
  /\ \/ /\ Go(r, [req[r] EXCEPT !.pc = "saving", !.source = 0, !.link = Len(links) + 1])
        /\ holder' = IF holder = r THEN NoRequest ELSE holder
     \/ End(r)
  /\ UNCHANGED <<provider, cred, sources, local, granted, late, history>>

\* The request times out, and releases its lock, before Airbyte creates what it asked for.
\* (Without a lock that is no more than a slow request that ends in its creation.)
TimeOut(r) ==
  /\ holder = r /\ Len(late) < MaxLate
  /\ \/ At(r, "making source") /\ req[r].source = 0
     \/ At(r, "making link") /\ req[r].link = 0
  /\ late' = Append(late, req[r]) /\ End(r)
  /\ UNCHANGED <<provider, cred, airbyte, local, granted, history>>

Land ==
  /\ late # <<>> /\ late' = Tail(late) /\ delayed' = TRUE
  /\ IF Head(late).pc = "making source"
     THEN Len(sources) < MaxRemote /\ sources' = Append(sources, Head(late).token) /\ UNCHANGED links
     ELSE Len(links) < MaxRemote /\ links' = Append(links, Head(late).source) /\ UNCHANGED sources
  /\ UNCHANGED <<provider, cred, local, req, holder, granted, grant, mixed, closed, survivors>>

\* update_or_create, after the lock is released: a row it finds is read for update, a new
\* one is inserted.
SaveConnection(r) ==
  /\ At(r, "saving") /\ req[r].link \notin RowsHeld(r)
  /\ local' = [local EXCEPT ![req[r].link] = "active"]
  /\ survivors' = survivors \cup (IF Others(r, {"paused"}) THEN {"connection"} ELSE {})
  /\ End(r)
  /\ UNCHANGED <<provider, cred, airbyte, granted, late, grant, mixed, delayed, closed>>

(***************************************************************************)
(* Disconnect.  Nothing is changed in Airbyte.                             *)
(***************************************************************************)
Paused(rows) == [l \in Remote |-> IF l \in rows THEN "paused" ELSE local[l]]
Mirrored == {l \in Remote : local[l] # "none"}
\* What requests under way may do once the disconnect r has deleted the row.
Close(r, before) ==
  /\ closed' = TRUE
  /\ survivors' = before
                  \cup (IF Others(r, AfterLock) THEN {"connection"} ELSE {})
                  \cup (IF Others(r, {"exchanged", "loaded"}) THEN {"credential"} ELSE {})

\* The first statement pauses the rows there are and waits for no provisioning.  In
\* GoogleAdsDisconnectView it is committed at once; in IntegrationDisconnectView it holds
\* the rows, unseen, until the transaction ends.
PauseConnections(r) ==
  /\ Mirrored \cap RowsHeld(r) = {}
  /\ IF Is("ga4")
     THEN Begin(r, [AtRest EXCEPT !.pc = "paused", !.rows = Mirrored]) /\ UNCHANGED local
     ELSE Begin(r, [AtRest EXCEPT !.pc = "paused"]) /\ local' = Paused(Mirrored)
  /\ UNCHANGED <<provider, cred, airbyte, holder, granted, late, grant, mixed, delayed>>
\* The second waits for the lock of a provisioning.  A connection saved for the first time
\* since the first statement stays active.
DeleteCredentials(r) ==
  /\ At(r, "paused") /\ Unlocked
  /\ cred' = NoCredential /\ grant' = 0 /\ local' = Paused(req[r].rows)
  /\ End(r) /\ Close(r, survivors)
  /\ UNCHANGED <<provider, airbyte, granted, late, mixed, delayed>>

\* PlatformCredentialViewSet's DELETE leaves the connections alone.
DeleteCredential ==
  /\ cred.key # 0 /\ Unlocked /\ cred' = NoCredential /\ grant' = 0
  /\ UNCHANGED <<provider, airbyte, local, req, holder, granted, late, mixed, delayed, closed, survivors>>

Next ==
  \/ Exchange \/ Land \/ DeleteCredential
  \/ \E r \in Requests :
       \/ GiveUp(r) \/ TimeOut(r)
       \/ StartCallback(r) \/ GetOrCreate(r) \/ SaveCredential(r) \/ StartRefresh(r)
       \/ StartProvision(r) \/ Lock(r) \/ ListSources(r) \/ ReuseSource(r) \/ CreateSource(r)
       \/ ListLinks(r) \/ ReuseLink(r) \/ CreateLink(r) \/ SaveConnection(r)
       \/ PauseConnections(r) \/ DeleteCredentials(r)
Spec == Init /\ [][Next]_vars

=============================================================================
