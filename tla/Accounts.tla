------------------------------- MODULE Accounts -------------------------------
(***************************************************************************)
(* Who may use the service: login and refresh of tokens, and the requests  *)
(* that create tenants, users and streams.  A creating request checks the  *)
(* caller's token, adds its row in a flush and commits; between the two    *)
(* another request may run.  Nothing in the service changes or removes a   *)
(* user, and a token is believed without a look at the tables.             *)
(***************************************************************************)
EXTENDS Integers, FiniteSets

CONSTANTS
    TenantIds, Emails, UserRoles,
    FirstTenant, FirstEmail,   \* of the owner the seed has stored
    ForeignKeys,               \* the database enforces them: PostgreSQL, not SQLite
    MaxRequests                \* bound on the creating requests

ASSUME AccountsAssumption ==
    /\ UserRoles \subseteq {"owner", "admin", "operator", "viewer", "api"}
    /\ FirstTenant \in TenantIds /\ FirstEmail \in Emails

VARIABLES
    tenantRows,   \* ids of committed tenants
    userRows,     \* committed users
    streamRows,   \* tenants of committed streams, with the id of each
    tokens,       \* tokens that were issued and have not expired
    requests,     \* creating requests in progress
    lastId        \* ids given so far (uuid4 in the code)

accountVars == <<tenantRows, userRows, streamRows, tokens, requests, lastId>>
------------------------------------------------------------------------------
UserRecords == [id : Nat, tenant : TenantIds, email : Emails, role : UserRoles]

Tokens == [sub : Nat, tid : TenantIds, role : UserRoles]

(* get_by_email asks for one row or none and raises on two.                 *)
Found(tenant, email) == {u \in userRows : u.tenant = tenant /\ u.email = email}

(* login, with the right password; a wrong one and an unknown address get   *)
(* the same answer and change nothing.                                      *)
Login ==
    \E tenant \in TenantIds, email \in Emails :
        /\ Cardinality(Found(tenant, email)) = 1
        /\ \E u \in Found(tenant, email) :
              tokens' = tokens \cup {[sub |-> u.id, tid |-> u.tenant, role |-> u.role]}
        /\ UNCHANGED <<tenantRows, userRows, streamRows, requests, lastId>>

(* refresh signs the claims of a valid token again: the token it answers    *)
(* with differs in its time only.                                           *)
Refreshed(t) == [sub |-> t.sub, tid |-> t.tid, role |-> t.role]

Refresh ==
    /\ \E t \in tokens : tokens' = tokens \cup {Refreshed(t)}
    /\ UNCHANGED <<tenantRows, userRows, streamRows, requests, lastId>>

Expire ==
    /\ \E t \in tokens : tokens' = tokens \ {t}
    /\ UNCHANGED <<tenantRows, userRows, streamRows, requests, lastId>>
------------------------------------------------------------------------------
NoRequest == [phase |-> "none", row |-> <<>>]

RequestSlots == 1..2

Begun(row) == [phase |-> "begun", row |-> row]

(* create_tenant: owners only; the caller chooses the id.                   *)
TenantAsked(t) == {<<"tenant", id>> : id \in IF t.role = "owner" THEN TenantIds ELSE {}}

(* add_user: owners for any tenant, an admin for his own.                   *)
MayAdd(t, tenant) == t.role = "owner" \/ (t.role = "admin" /\ t.tid = tenant)

UserAsked(t) ==
    {<<"user", [id |-> lastId + 1, tenant |-> tenant, email |-> email, role |-> role]>> :
        tenant \in {n \in TenantIds : MayAdd(t, n)}, email \in Emails, role \in UserRoles}

(* create_stream: any user, for his own tenant.                             *)
StreamAsked(t) == {<<"stream", [id |-> lastId + 1, tenant |-> t.tid]>>}

Ask(i) ==
    /\ requests[i] = NoRequest /\ lastId < MaxRequests
    /\ \E t \in tokens : \E row \in TenantAsked(t) \cup UserAsked(t) \cup StreamAsked(t) :
          requests' = [requests EXCEPT ![i] = Begun(row)]
    /\ lastId' = lastId + 1
    /\ UNCHANGED <<tenantRows, userRows, streamRows, tokens>>

(* Two rows that a primary key or ix_users_tenant_email keeps apart.        *)
Clash(a, b) ==
    /\ a[1] = b[1]
    /\ CASE a[1] = "tenant" -> a[2] = b[2]
         [] a[1] = "user" -> a[2].tenant = b[2].tenant /\ a[2].email = b[2].email
         [] a[1] = "stream" -> FALSE

Committed ==
    {<<"tenant", t>> : t \in tenantRows} \cup {<<"user", u>> : u \in userRows}

Flushed == {requests[j].row : j \in {k \in RequestSlots : requests[k].phase = "flushed"}}

(* The row's tenant is there, where the database asks.                      *)
Referred(row) == ~ForeignKeys \/ row[1] = "tenant" \/ row[2].tenant \in tenantRows

(* A flush waits for the end of a transaction whose row clashes with its    *)
(* own, and its IntegrityError leaves nothing (answered with 500).          *)
MutantMayFlush(row) == TRUE

MayFlush(row) == \A other \in Flushed : ~Clash(row, other)

Flush(i) ==
    LET row == requests[i].row
    IN  /\ requests[i].phase = "begun"
        /\ MayFlush(row)
        /\ requests' = [requests EXCEPT ![i] =
                          IF Referred(row) /\ \A other \in Committed : ~Clash(row, other)
                          THEN [phase |-> "flushed", row |-> row] ELSE NoRequest]
        /\ UNCHANGED <<tenantRows, userRows, streamRows, tokens, lastId>>

Added(rows, what, row) == IF row[1] = what THEN rows \cup {row[2]} ELSE rows

CommitRow(i) ==
    LET row == requests[i].row
    IN  /\ requests[i].phase = "flushed"
        /\ tenantRows' = Added(tenantRows, "tenant", row)
        /\ userRows' = Added(userRows, "user", row)
        /\ streamRows' = Added(streamRows, "stream", row)
        /\ requests' = [requests EXCEPT ![i] = NoRequest]
        /\ UNCHANGED <<tokens, lastId>>

(* A password under ten characters, a lost connection, a failing commit.    *)
Rollback(i) ==
    /\ requests[i] # NoRequest
    /\ requests' = [requests EXCEPT ![i] = NoRequest]
    /\ UNCHANGED <<tenantRows, userRows, streamRows, tokens, lastId>>

AccountInit ==
    /\ tenantRows = {FirstTenant}
    /\ userRows = {[id |-> 0, tenant |-> FirstTenant, email |-> FirstEmail, role |-> "owner"]}
    /\ streamRows = {} /\ tokens = {} /\ lastId = 0
    /\ requests = [i \in RequestSlots |-> NoRequest]

AccountNext ==
    \/ Login \/ Refresh \/ Expire
    \/ \E i \in RequestSlots : Ask(i) \/ Flush(i) \/ CommitRow(i) \/ Rollback(i)

AccountSpec == AccountInit /\ [][AccountNext]_accountVars
------------------------------------------------------------------------------
(* However requests overlap and fail, an address belongs to one user of a   *)
(* tenant, so that login never finds two; and every token that is believed  *)
(* names a stored user in his tenant and role.                              *)
EmailFindsOneUser ==
    /\ \A u, v \in userRows : u.tenant = v.tenant /\ u.email = v.email => u = v
    /\ \A t \in tokens : \E u \in userRows : u.id = t.sub /\ u.tenant = t.tid /\ u.role = t.role
==============================================================================
