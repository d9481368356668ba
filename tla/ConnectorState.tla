--------------------------- MODULE ConnectorState ---------------------------
(***************************************************************************)
(* One account's OAuth credential, its source and connection in Airbyte,   *)
(* the rows that mirror them (integrations/models.py) and the requests at  *)
(* work on them, and what must hold of these.  The steps are               *)
(* ConnectorLifecycle's.                                                   *)
(***************************************************************************)
EXTENDS Naturals, Sequences

CONSTANTS Providers,   \* of {"ga4", "google_ads"}: which families of views are at work
          Requests, NoRequest,
          MaxGrants,   \* bound: authorizations given by Google
          MaxRemote,   \* bound: sources, and connections, in Airbyte
          MaxLate      \* bound: creations Airbyte performs after the request gave up

ASSUME ProvidersAssumption == Providers \subseteq {"ga4", "google_ads"}
ASSUME RequestsAssumption == NoRequest \notin Requests
ASSUME GrantsAssumption == MaxGrants \in Nat /\ MaxRemote \in Nat
Grants == 0 .. MaxGrants     \* 0: no refresh token
Remote == 1 .. MaxRemote

VARIABLES
  provider,  \* fixed at the start
  cred,      \* PlatformCredential: its key, 0 without a row, and whose refresh token it has
  sources,   \* Airbyte's sources: the grant each is configured with
  links,     \* Airbyte's connections: the source of each
  local,     \* AirbyteConnection rows, by Airbyte's connection
  req,       \* what each request, or refresh task, has in memory
  holder,    \* who holds the lock of the credential's row
  granted,   \* authorizations so far
  late,      \* creations under way whose request gave up
  grant,     \* history: the last refresh token saved for the row
  mixed,     \* history: two holders of the row, or two provisionings, were under way at once
  delayed,   \* history: a creation landed late
  closed,    \* history: nothing was begun since the last disconnect
  survivors  \* history: what requests under way then may still bring back

Is(p) == provider = p
Provisioning == {"chosen", "sources", "making source", "links", "making link", "saving"}

RequestStates ==
  [pc : {"idle", "exchanged", "loaded", "paused"} \cup Provisioning, key : Grants,
   token : Grants, kept : Grants, source : 0 .. MaxRemote, link : 0 .. MaxRemote,
   rows : SUBSET Remote]
Credentials == [key : Grants, token : Grants]
\* Every variable keeps its type.
TypeInvariant ==
  /\ provider \in Providers /\ cred \in Credentials
  /\ sources \in Seq(Grants \ {0}) /\ links \in Seq(Remote) /\ late \in Seq(RequestStates)
  /\ Len(sources) <= MaxRemote /\ Len(links) <= MaxRemote
  /\ local \in [Remote -> {"none", "active", "paused"}] /\ req \in [Requests -> RequestStates]
  /\ holder \in Requests \cup {NoRequest} /\ granted \in Grants /\ grant \in Grants
  /\ {mixed, delayed, closed} \subseteq BOOLEAN /\ survivors \subseteq {"connection", "credential"}

\* However ga4 provisionings overlap, give up or lose answers, Airbyte has one source and
\* one connection for the account, unless it creates one after its request gave up.
NoDuplicates ==
  Is("ga4") /\ ~delayed => Len(sources) <= 1 /\ Len(links) <= 1

\* Until something new is begun, a disconnect leaves no credential and nothing active,
\* whoever was under way: only a provisioning past the lock brings back a connection it
\* paused, or saves one that it did not see, and only a save of the credential brings that
\* back.
DisconnectStands ==
  closed => /\ "credential" \notin survivors => cred.key = 0
            /\ survivors = {} => \A l \in Remote : local[l] # "active"

\* The refresh token a grant left in the row stays until another grant brings one, through
\* refreshes and grants without one; only overlapping saves lose it.
RefreshTokenStays == cred.key # 0 /\ ~mixed => cred.token = grant
=============================================================================
