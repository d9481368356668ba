--------------------------- MODULE TenantSecrets ---------------------------
(***************************************************************************)
(* The secrets of one tenant and the key that seals them: the TenantKey    *)
(* row, the PlatformCredential, NotificationChannel and Meta rows sealed   *)
(* with it, the rotation of the key (core/crypto/dek_manager.py) and the   *)
(* code that writes those rows meanwhile: OAuth callbacks, API edits and   *)
(* the token refresh tasks.                                                *)
(*                                                                         *)
(* The rotation is not a transaction.  It re-encrypts the listed rows one  *)
(* by one under a key that exists only in the memory of the worker, and    *)
(* stores that key last.                                                   *)
(***************************************************************************)
EXTENDS Naturals, FiniteSets

CONSTANTS Credentials,   \* PlatformCredential rows
          Channels,      \* NotificationChannel rows with a secret
          MetaRows,      \* MetaConnection and MetaPage rows
          Rotators,      \* tasks rotate_deks and runs of scripts/rotate_deks.py
          Editors,       \* requests and tasks that write a row
          MaxKeys,       \* bound: keys generated
          MaxGrants      \* bound: tokens and secrets handed over by users and providers

Listed == Credentials \cup Channels    \* the rows a rotation re-encrypts
Rows == Listed \cup MetaRows
ASSUME ConstantsAssumption == Rows # {} /\ MaxKeys \in Nat /\ MaxGrants \in Nat

Keys == 0 .. MaxKeys              \* 0: no key
Sealed == {s \in [key : Keys, gen : 0 .. MaxGrants] : s.key = 0 <=> s.gen = 0}
Empty == [key |-> 0, gen |-> 0]   \* a null or zero-length column

VARIABLES
  key,        \* the key in TenantKey
  row,        \* the sealed columns of every row; there: the row exists
  rotation,   \* what each rotator has in memory
  edit,       \* what each editor has in memory
  minted,     \* keys generated so far
  granted,    \* tokens handed over so far
  newest,     \* history: the last token or secret saved for a row
  exposed,    \* history: rows written in an overlap with a rotation, or by one that died
  contended   \* history: rows two editors wrote in overlapping operations

vars == <<key, row, rotation, edit, minted, granted, newest, exposed, contended>>
history == <<newest, exposed, contended>>

Row == [there : BOOLEAN, access : Sealed, refresh : Sealed, label : Keys]
NoRow == [there |-> FALSE, access |-> Empty, refresh |-> Empty, label |-> 0]

Rotation == [pc : {"idle", "loaded", "credentials", "channels"}, old : Keys, new : Keys,
             todo : SUBSET Rows, copy : [Rows -> Row], written : SUBSET Rows, met : BOOLEAN]
NoRotation == [pc |-> "idle", old |-> 0, new |-> 0, todo |-> {},
               copy |-> [r \in Rows |-> NoRow], written |-> {}, met |-> FALSE]

Edits == {"connect", "refresh", "rename"}
Edit == [pc : {"idle", "loaded", "used", "keyless", "keyed"}, kind : Edits, on : Rows, copy : Row,
         seen : Keys, met : SUBSET {"rotation", "edit"}]
NoEdit == [pc |-> "idle", kind |-> "rename", on |-> CHOOSE r \in Rows : TRUE,
           copy |-> NoRow, seen |-> 0, met |-> {}]

Rotating == {w \in Rotators : rotation[w].pc \in {"credentials", "channels"}}
Editing(r) == {e \in Editors : edit[e].pc # "idle" /\ edit[e].on = r}

Init ==
  /\ key = 0
  /\ row = [r \in Rows |-> NoRow]
  /\ rotation = [w \in Rotators |-> NoRotation]
  /\ edit = [e \in Editors |-> NoEdit]
  /\ minted = 0 /\ granted = 0
  /\ newest = [r \in Rows |-> [access |-> 0, refresh |-> 0]]
  /\ exposed = {} /\ contended = {}

(***************************************************************************)
(* Writers of a row.  A copy of the whole row is loaded, the key is read   *)
(* when there is a new secret to seal, and the whole row is saved: the     *)
(* columns that did not change go back as they were loaded.                *)
(***************************************************************************)
Load(e, r, kind) ==
  /\ edit[e].pc = "idle"
  /\ kind # "connect" => row[r].there
  /\ kind = "refresh" => r \in Credentials
  /\ edit' = [f \in Editors |->
       IF f = e
         THEN [pc |-> "loaded", kind |-> kind, on |-> r, copy |-> row[r], seen |-> 0,
               met |-> (IF Rotating # {} THEN {"rotation"} ELSE {})
                       \cup (IF Editing(r) # {} THEN {"edit"} ELSE {})]
         ELSE IF f \in Editing(r) THEN [edit[f] EXCEPT !.met = @ \cup {"edit"}] ELSE edit[f]]
  /\ UNCHANGED <<key, row, rotation, minted, granted, history>>

\* A refresh task opens the token it loaded with the key stored now, and shows it to
\* the provider.  A token that does not open ends the task; a refusal only marks the row.
UseToken(e) ==
  /\ edit[e].pc = "loaded" /\ edit[e].kind = "refresh"
  /\ \/ /\ {edit[e].copy.access.key, edit[e].copy.refresh.key} \subseteq {0, key}
        /\ edit' = [edit EXCEPT ![e].pc = "used"]
     \/ edit' = [edit EXCEPT ![e] = NoEdit]
  /\ UNCHANGED <<key, row, rotation, minted, granted, history>>

NeedsKey(e) == \/ edit[e].kind = "connect" /\ edit[e].pc = "loaded"
               \/ edit[e].kind = "refresh" /\ edit[e].pc = "used"

\* get_dek_for_tenant, with a key to read.
GetDek(e) ==
  /\ NeedsKey(e) /\ key # 0
  /\ edit' = [edit EXCEPT ![e].pc = "keyed", ![e].seen = key]
  /\ UNCHANGED <<key, row, rotation, minted, granted, history>>

\* get_dek_for_tenant for a tenant without a key: generated after the lookup ...
GenerateFirstDek(e) ==
  /\ NeedsKey(e) /\ key = 0 /\ minted < MaxKeys
  /\ minted' = minted + 1
  /\ edit' = [edit EXCEPT ![e].pc = "keyless", ![e].seen = minted']
  /\ UNCHANGED <<key, row, rotation, granted, history>>

\* Mutant of CreateTenantKey: the loser of the race seals with the key it generated.
SealWithoutLookup(e) ==
  /\ edit[e].pc = "keyless"
  /\ key' = IF key = 0 THEN edit[e].seen ELSE key
  /\ edit' = [edit EXCEPT ![e].pc = "keyed"]
  /\ UNCHANGED <<row, rotation, minted, granted, history>>

\* ... and inserted, unless another request inserted one first (TenantKey.tenant is unique).
CreateTenantKey(e) ==
  /\ edit[e].pc = "keyless"
  /\ IF key = 0
       THEN key' = edit[e].seen /\ edit' = [edit EXCEPT ![e].pc = "keyed"]
       ELSE edit' = [edit EXCEPT ![e] = NoEdit] /\ UNCHANGED key
  /\ UNCHANGED <<row, rotation, minted, granted, history>>

\* IntegrationOAuthCallbackView: get_or_create inserts a row without tokens, in a
\* transaction of its own, before the tokens are saved.
InsertEmpty(e) ==
  /\ edit[e].pc = "keyed" /\ edit[e].kind = "connect" /\ edit[e].on \in Credentials
  /\ ~edit[e].copy.there /\ ~row[edit[e].on].there
  /\ LET bare == [NoRow EXCEPT !.there = TRUE, !.label = edit[e].seen] IN
       /\ row' = [row EXCEPT ![edit[e].on] = bare]
       /\ edit' = [edit EXCEPT ![e].pc = "loaded", ![e].copy = bare]
  /\ UNCHANGED <<key, rotation, minted, granted, history>>

Fresh(e) == [key |-> edit[e].seen, gen |-> granted + 1]

\* What a save puts in the two columns: set_raw_tokens seals the tokens it is given, a
\* refresh token may be cleared, and a column without a new secret keeps what was loaded.
SavedColumns(e) ==
  LET copy == edit[e].copy IN
  {c \in [access : {Fresh(e), copy.access}, refresh : {Fresh(e), copy.refresh, Empty}] :
     /\ c.access = Fresh(e) \/ (edit[e].kind = "connect" /\ c.refresh = Fresh(e) /\ copy.there)
     /\ edit[e].kind = "refresh" \/ edit[e].on \notin Credentials => c.refresh = copy.refresh}

\* A save that met another operation on the way leaves the row exposed or contended;
\* one that met none and brought new secrets makes good what earlier ones left.
Remember(r, met, renewed) ==
  /\ exposed' = IF "rotation" \in met THEN exposed \cup {r}
                ELSE IF renewed /\ met = {} THEN exposed \ {r} ELSE exposed
  /\ contended' = IF "edit" \in met THEN contended \cup {r}
                  ELSE IF renewed /\ met = {} THEN contended \ {r} ELSE contended

SaveSecret(e) ==
  LET r == edit[e].on IN
  /\ edit[e].pc = "keyed" /\ granted < MaxGrants
  /\ row[r].there => edit[e].copy.there
  /\ \E c \in SavedColumns(e) :
       /\ row' = [row EXCEPT ![r] = [there |-> TRUE, access |-> c.access, refresh |-> c.refresh,
                                     label |-> edit[e].seen]]
       /\ newest' = [newest EXCEPT ![r] =
            [access |-> IF c.access = edit[e].copy.access THEN @.access ELSE c.access.gen,
             refresh |-> IF c.refresh = edit[e].copy.refresh THEN @.refresh ELSE c.refresh.gen]]
       /\ Remember(r, edit[e].met, c.access = Fresh(e) /\
                                   (c.refresh # edit[e].copy.refresh \/ r \notin Credentials))
  /\ granted' = granted + 1
  /\ edit' = [edit EXCEPT ![e] = NoEdit]
  /\ UNCHANGED <<key, rotation, minted>>

\* An edit of a name or of settings saves the sealed columns as they were loaded.
SaveUnchanged(e) ==
  LET r == edit[e].on IN
  /\ edit[e].pc = "loaded" /\ edit[e].kind = "rename"
  /\ row' = [row EXCEPT ![r] = edit[e].copy]
  /\ Remember(r, edit[e].met, FALSE)
  /\ edit' = [edit EXCEPT ![e] = NoEdit]
  /\ UNCHANGED <<key, rotation, minted, granted, newest>>

\* A request that loses its connection, its worker, or the key service.
DropEdit(e) ==
  /\ edit[e].pc # "idle"
  /\ edit' = [edit EXCEPT ![e] = NoEdit]
  /\ UNCHANGED <<key, row, rotation, minted, granted, history>>

(***************************************************************************)
(* The rotation of the tenant's key.                                       *)
(***************************************************************************)
\* The keys of all tenants are listed at the start; earlier tenants take their time.
LoadTenantKey(w) ==
  /\ rotation[w].pc = "idle" /\ key # 0
  /\ LET others == {v \in Rotators \ {w} : rotation[v].pc # "idle"} IN
     rotation' = [v \in Rotators |->
       IF v = w THEN [NoRotation EXCEPT !.pc = "loaded", !.old = key, !.met = others # {}]
       ELSE IF v \in others THEN [rotation[v] EXCEPT !.met = TRUE] ELSE rotation[v]]
  /\ UNCHANGED <<key, row, edit, minted, granted, history>>

Listing(rows) == [r \in Rows |-> IF r \in rows THEN row[r] ELSE NoRow]

\* A new key is generated and the credentials are listed.
StartRotation(w) ==
  /\ rotation[w].pc = "loaded" /\ minted < MaxKeys
  /\ minted' = minted + 1
  /\ rotation' = [rotation EXCEPT ![w].pc = "credentials", ![w].new = minted', ![w].copy = Listing(Credentials),
                                  ![w].todo = {r \in Credentials : row[r].there}]
  /\ edit' = [e \in Editors |->
       IF edit[e].pc = "idle" THEN edit[e] ELSE [edit[e] EXCEPT !.met = @ \cup {"rotation"}]]
  /\ UNCHANGED <<key, row, granted, history>>

\* A key service that does not answer: KmsError, before anything is written.
KmsFails(w) ==
  /\ rotation[w].pc = "loaded"
  /\ rotation' = [rotation EXCEPT ![w] = NoRotation]
  /\ UNCHANGED <<key, row, edit, minted, granted, history>>

Opens(sealed, k) == sealed.key = k
\* decrypt_value of a listed row: the access column always, the refresh column if there is one.
RowOpens(copy, k) == Opens(copy.access, k) /\ (copy.refresh = Empty \/ Opens(copy.refresh, k))

\* Mutant of Reseal: a null column is encrypted as well.
ResealNull(sealed, k) == [sealed EXCEPT !.key = k]
Reseal(sealed, k) == IF sealed = Empty THEN Empty ELSE [sealed EXCEPT !.key = k]

\* Mutant of Rotated: the access token is encrypted into both columns.
RotatedTwice(copy, k) ==
  [copy EXCEPT !.access = Reseal(@, k), !.label = k,
               !.refresh = IF @ = Empty THEN Empty ELSE Reseal(copy.access, k)]
Rotated(copy, k) == [copy EXCEPT !.access = Reseal(@, k), !.refresh = Reseal(@, k), !.label = k]

\* The re-encrypted columns of the listed copy are saved over whatever the row holds now.
RotateRow(w, r) ==
  LET me == rotation[w] IN
  /\ r \in me.todo /\ RowOpens(me.copy[r], me.old)
  /\ row' = [row EXCEPT ![r] = Rotated(me.copy[r], me.new)]
  /\ rotation' = [rotation EXCEPT ![w].todo = @ \ {r}, ![w].written = @ \cup {r}]
  /\ exposed' = IF me.met THEN exposed \cup {r} ELSE exposed
  /\ UNCHANGED <<key, edit, minted, granted, newest, contended>>

\* InvalidTag is not a KmsError: it ends the task, and the rows written so far are
\* sealed with a key nobody has any more.
AbortRotation(w) ==
  LET me == rotation[w] IN
  /\ \E r \in me.todo : ~RowOpens(me.copy[r], me.old)
  /\ rotation' = [rotation EXCEPT ![w] = NoRotation]
  /\ exposed' = exposed \cup me.written
  /\ UNCHANGED <<key, row, edit, minted, granted, newest, contended>>

ListChannels(w) ==
  /\ rotation[w].pc = "credentials" /\ rotation[w].todo = {}
  /\ rotation' = [rotation EXCEPT ![w].pc = "channels", ![w].copy = Listing(Channels),
                                  ![w].todo = {r \in Channels : row[r].access # Empty}]
  /\ UNCHANGED <<key, row, edit, minted, granted, history>>

\* The new key is stored.  No loop above lists MetaConnection or MetaPage.
StoreTenantKey(w) ==
  /\ rotation[w].pc = "channels" /\ rotation[w].todo = {}
  /\ key' = rotation[w].new
  /\ rotation' = [rotation EXCEPT ![w] = NoRotation]
  /\ exposed' = IF rotation[w].met THEN Rows ELSE exposed
  /\ UNCHANGED <<row, edit, minted, granted, newest, contended>>

LoseRotator(w) ==
  /\ rotation[w].pc # "idle"
  /\ rotation' = [rotation EXCEPT ![w] = NoRotation]
  /\ exposed' = exposed \cup rotation[w].written
  /\ UNCHANGED <<key, row, edit, minted, granted, newest, contended>>

EditorStep(e) ==
  \/ \E r \in Rows, kind \in Edits : Load(e, r, kind)
  \/ UseToken(e) \/ GetDek(e) \/ GenerateFirstDek(e) \/ CreateTenantKey(e)
  \/ InsertEmpty(e) \/ SaveSecret(e) \/ SaveUnchanged(e) \/ DropEdit(e)

RotatorStep(w) ==
  \/ LoadTenantKey(w) \/ StartRotation(w) \/ KmsFails(w) \/ AbortRotation(w)
  \/ \E r \in Rows : RotateRow(w, r)
  \/ ListChannels(w) \/ StoreTenantKey(w) \/ LoseRotator(w)

Next == (\E e \in Editors : EditorStep(e)) \/ (\E w \in Rotators : RotatorStep(w))
Spec == Init /\ [][Next]_vars

-----------------------------------------------------------------------------
\* Every variable keeps its type.
TypeOK ==
  /\ key \in Keys
  /\ row \in [Rows -> Row]
  /\ rotation \in [Rotators -> Rotation]
  /\ edit \in [Editors -> Edit]
  /\ minted \in Keys /\ granted \in 0 .. MaxGrants
  /\ newest \in [Rows -> [access : 0 .. MaxGrants, refresh : 0 .. MaxGrants]]
  /\ exposed \subseteq Rows /\ contended \subseteq Rows

HoldsSecret(r) == row[r].access # Empty
Readable(r) == {row[r].access.key, row[r].refresh.key} \subseteq {0, key}

\* Outside of a rotation every stored secret of a credential or channel opens with the
\* stored key, unless its row was written in an overlap with a rotation, or a rotation died
\* after writing it: the order of the loops, the columns they re-encrypt and the key read by
\* each save (dek_manager.py, PlatformCredential.save) leave no other way to lose one, the
\* first save of a new tenant by two requests at once included.  Of MetaConnection and
\* MetaPage rows it says nothing: no rotation lists them (dek_manager.py:135-205), and one
\* that goes well leaves their tokens sealed with the key it replaced.
OnlyOverlapsLoseSecrets ==
  Rotating = {} => \A r \in Listed \ exposed : HoldsSecret(r) => Readable(r)

\* A rotation that goes well, and saves that do not overlap, keep the newest tokens: what a
\* row holds is what was last granted, and dek_key_version, which support reads to tell how
\* it is sealed, names the key of both columns.  Two editors of one row, and a rotation that writes
\* back the copy it listed, are the only ways to bring an older token back.
OnlyOverlapsBringBackTokens ==
  \A r \in Rows \ (exposed \cup contended) :
    HoldsSecret(r) => /\ row[r].access.gen = newest[r].access
                      /\ row[r].refresh.gen = newest[r].refresh
                      /\ {row[r].access.key, row[r].refresh.key} \subseteq {0, row[r].label}

=============================================================================
