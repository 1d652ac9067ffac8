------------------------------ MODULE Keycloak ------------------------------
(***************************************************************************)
(* The RH-SSO server as the operator's admin client sees it: realms, and   *)
(* in each realm its clients, roles, users and role mappings.  An operator *)
(* of this module is what one answered request does; a request that only   *)
(* reads is a condition on the state.                                      *)
(***************************************************************************)
EXTENDS Naturals, FiniteSets

CONSTANTS
    Devs,           \* names of RhpamDev objects
    RoleNames,      \* names of realm roles
    AccountNames,   \* names of realm users
    BuiltinRoles,   \* the defaultRoles of the realm template
    Containing,     \* [AccountNames -> the names that contain this one]
    PageSize        \* how many accounts Keycloak lists at most

\* Realm ids: the name of the RhpamDev and a token drawn when the realm is
\* provisioned.
RealmIds == Devs \X Nat

ASSUME BuiltinRolesAssumption == BuiltinRoles \subseteq RoleNames
ASSUME AccountsAssumption ==
    /\ Containing \in [AccountNames -> SUBSET AccountNames]
    /\ \A a \in AccountNames : a \in Containing[a]
    /\ PageSize \in Nat

VARIABLES
    realms,     \* SUBSET RealmIds
    clients,    \* set of <<realm, client id>>
    roles,      \* set of <<realm, role name>>
    accounts,   \* set of <<realm, user name>>
    grants,     \* set of <<realm, user name, role name>>
    lastToken   \* the token drawn last for a realm id

ssoVars == <<realms, clients, roles, accounts, grants, lastToken>>

BusinessCentralClient == "rhpambc"
KieServerClient == "rhpamks"
KieServerDirectClient == "rhpamks-direct"
ClientIds == {BusinessCentralClient, KieServerClient, KieServerDirectClient}

KeycloakTypeOK ==
    /\ realms \subseteq RealmIds
    /\ clients \subseteq RealmIds \X ClientIds
    /\ roles \subseteq RealmIds \X RoleNames
    /\ accounts \subseteq RealmIds \X AccountNames
    /\ grants \subseteq RealmIds \X AccountNames \X RoleNames
    /\ lastToken \in Nat

KeycloakInit ==
    /\ realms = {} /\ clients = {} /\ roles = {}
    /\ accounts = {} /\ grants = {}
    /\ lastToken = 0

\* POST realms: 201, or 409 for an id that is taken.
SsoCreateRealm(r) ==
    /\ realms' = realms \cup {r}
    /\ roles' = IF r \in realms THEN roles
                ELSE roles \cup {<<r, b>> : b \in BuiltinRoles}
    /\ UNCHANGED <<clients, accounts, grants>>

\* POST realms/{realm}/clients: 201, 404 without the realm, 409 if taken.
SsoCreateClient(r, c) ==
    /\ clients' = IF r \in realms THEN clients \cup {<<r, c>>} ELSE clients
    /\ UNCHANGED <<realms, roles, accounts, grants, lastToken>>

\* DELETE realms/{realm}: 204 and everything of the realm goes, or 404.
SsoDeleteRealm(r) ==
    /\ realms' = realms \ {r}
    /\ clients' = {x \in clients : x[1] # r}
    /\ roles' = {x \in roles : x[1] # r}
    /\ accounts' = {x \in accounts : x[1] # r}
    /\ grants' = {x \in grants : x[1] # r}
    /\ UNCHANGED lastToken

-----------------------------------------------------------------------------
(* Reads that show less, or something else, than was asked for.            *)

InRealm(r, pairs) == {x[2] : x \in {y \in pairs : y[1] = r}}

\* GET users answers one page of the accounts of a realm.
Pages(r) ==
    LET all == InRealm(r, accounts)
    IN  IF Cardinality(all) <= PageSize THEN {all}
        ELSE {page \in SUBSET all : Cardinality(page) = PageSize}

\* The accounts of a realm fit on that page.
OnePage == IsFiniteSet(AccountNames) /\ Cardinality(AccountNames) <= PageSize

\* GET users?username= answers the accounts whose name contains the one asked
\* for, and FindUserByUsername returns one of them.
FindUserByUsername(r, a) == Containing[a] \cap InRealm(r, accounts)

-----------------------------------------------------------------------------
(* Changes inside a realm.  createRole, createUser and createUserRealmRole *)
(* look before they post, so finding the thing there is no error; the      *)
(* deletes of the client answer an error when there is nothing to delete.  *)

RoleChanges == [op: {"createRole", "deleteRole"}, role: RoleNames]
AccountChanges ==
    [op: {"createUser", "deleteUser"}, account: AccountNames]
    \cup [op: {"grant", "revoke"}, account: AccountNames, role: RoleNames]
Changes == RoleChanges \cup AccountChanges

\* What a change of the account of a name becomes: a change of the account
\* that was found for it.  A faulty createUser would not look.
ResolvedCreatingUnseen(r, x) ==
    LET found == IF x.op \in {"createRole", "deleteRole", "createUser"} THEN {}
                 ELSE FindUserByUsername(r, x.account)
    IN  IF found = {} THEN {x} ELSE {[x EXCEPT !.account = a] : a \in found}

Resolved(r, x) ==
    LET found == IF x.op \in {"createRole", "deleteRole"} THEN {}
                 ELSE FindUserByUsername(r, x.account)
    IN  IF found = {} THEN {x} ELSE {[x EXCEPT !.account = a] : a \in found}

\* The change x in realm r is answered without an error.
Answered(r, x) ==
    CASE x.op \in {"createRole", "createUser"} -> r \in realms
      [] x.op = "deleteRole" -> <<r, x.role>> \in roles
      [] x.op = "deleteUser" -> <<r, x.account>> \in accounts
      [] x.op = "grant" -> /\ <<r, x.account>> \in accounts
                           /\ <<r, x.role>> \in roles
      [] x.op = "revoke" -> <<r, x.account>> \in accounts

\* What it leaves behind when it is: a new account holds the default roles
\* of the realm, a mapping goes with its role or its account.
SsoChange(r, x) ==
    /\ roles' = CASE x.op = "createRole" -> roles \cup {<<r, x.role>>}
                  [] x.op = "deleteRole" -> roles \ {<<r, x.role>>}
                  [] OTHER -> roles
    /\ accounts' = CASE x.op = "createUser" -> accounts \cup {<<r, x.account>>}
                     [] x.op = "deleteUser" -> accounts \ {<<r, x.account>>}
                     [] OTHER -> accounts
    /\ grants' =
          CASE x.op = "createUser" /\ <<r, x.account>> \notin accounts ->
                  grants \cup {<<r, x.account, b>> :
                                  b \in {b \in BuiltinRoles : <<r, b>> \in roles}}
            [] x.op = "deleteRole" ->
                  {g \in grants : ~(g[1] = r /\ g[3] = x.role)}
            [] x.op = "deleteUser" ->
                  {g \in grants : ~(g[1] = r /\ g[2] = x.account)}
            [] x.op = "grant" -> grants \cup {<<r, x.account, x.role>>}
            [] x.op = "revoke" -> grants \ {<<r, x.account, x.role>>}
            [] OTHER -> grants
    /\ UNCHANGED <<realms, clients, lastToken>>
=============================================================================
