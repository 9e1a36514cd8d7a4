----------------------------- MODULE Administration -----------------------------
(***************************************************************************)
(* Tenants, users, clients, custodians and matters, who administers them,  *)
(* and the configuration of a matter: its metadata definitions and groups, *)
(* the templates made of them, and saved searches (app/routers/tenants.py, *)
(* clients.py, matters.py, metadata_groups.py, matter_templates.py,        *)
(* saved_searches.py, app/dependencies.py, app/matter_configuration.py,    *)
(* app/metadata_profiles.py).                                              *)
(*                                                                         *)
(* An identity stands for the name that is unique at its level: creating   *)
(* what exists is a conflict and changes nothing.  A request is one        *)
(* transaction; only the copy of a configuration reads twice, and what     *)
(* others commit between its statements shows in the second read.          *)
(***************************************************************************)
EXTENDS Naturals, FiniteSets

CONSTANTS
    Root,          \* the root tenant
    Tenants,       \* tenants that may be created
    FirstUser,     \* the administrator of the root tenant
    Users,         \* users that may be created
    Clients, Matters,
    CoreFields,    \* the fields of the default profile, which nobody edits
    CustomFields,  \* the fields users add
    Groups,        \* the keys of metadata groups
    CoreGroup,     \* the group of the default profile
    Copies,        \* the copies of a configuration that may be in flight
    Searches,      \* the names of saved searches
    MaxCommands    \* bound on the commands of a behaviour

ASSUME AdministrationAssumption ==
    /\ Root \notin Tenants /\ FirstUser \notin Users /\ CoreGroup \in Groups
    /\ CoreFields # {} /\ CoreFields \cap CustomFields = {}
    /\ Clients \cap Matters = {}

VARIABLES
    parents,   \* parents[t]: the parent of tenant t
    users,     \* users[u]: the tenant of user u
    clients,   \* clients[c]: the tenant of client c
    matters,   \* matters[m]: the client of matter m and its configuration
    members,   \* the memberships <<user, client or matter>>
    templates, \* the templates, each with its only version
    copies,    \* copies[q]: the copy in slot q, between its reads
    saved,     \* the saved searches
    commands   \* the number of commands so far

adminVars == <<parents, users, clients, matters, members, templates, copies, saved, commands>>

\* A definition is kept when it is archived.
DefinitionStates == {"ACTIVE", "ARCHIVED"}
Usable(m) == {k \in DOMAIN matters[m].definitions : matters[m].definitions[k] # "ARCHIVED"}

\* The rows that the default profile gives a new matter (edrm-core, version 1).
DefaultConfiguration ==
    [definitions |-> [k \in CoreFields |-> "ACTIVE"],
     groups |-> {[key |-> CoreGroup, scope |-> "SYSTEM", owner |-> FirstUser, fields |-> CoreFields]}]

IdleCopy == [pc |-> "idle"]

\* The root tenant and its administrator exist (app/bootstrap.py).
AdminInit ==
    /\ parents = [t \in {Root} |-> Root]
    /\ users = [u \in {FirstUser} |-> Root]
    /\ clients = [c \in {} |-> Root] /\ matters = [m \in {} |-> DefaultConfiguration]
    /\ members = {} /\ templates = {} /\ saved = {}
    /\ copies = [q \in Copies |-> IdleCopy]
    /\ commands = 0

(***************************************************************************)
(* Who administers what (app/dependencies.py).  Every user is an ADMIN.    *)
(***************************************************************************)
IsRootAdmin(u) == users[u] = Root
CanAdminTenant(u, t) == IsRootAdmin(u) \/ users[u] = t
CanAdminClient(u, c) == CanAdminTenant(u, clients[c]) \/ <<u, c>> \in members
TenantOf(m) == clients[matters[m].client]
CanAdminMatter(u, m) == CanAdminClient(u, matters[m].client) \/ <<u, m>> \in members

\* A table with a row under a key that it did not have.
Insert(rows, key, row) == [k \in DOMAIN rows \cup {key} |-> IF k \in DOMAIN rows THEN rows[k] ELSE row]

Command == commands < MaxCommands /\ commands' = commands + 1

CreateTenant(p, t, parent, u) ==
    /\ Command /\ IsRootAdmin(p)
    /\ parent \in DOMAIN parents
    /\ t \notin DOMAIN parents /\ u \notin DOMAIN users
    /\ parents' = Insert(parents, t, parent)
    /\ users' = Insert(users, u, t)
    /\ UNCHANGED <<clients, matters, members, templates, copies, saved>>

CreateTenantUser(p, t, u) ==
    /\ Command /\ t \in DOMAIN parents /\ CanAdminTenant(p, t)
    /\ u \notin DOMAIN users
    /\ users' = Insert(users, u, t)
    /\ UNCHANGED <<parents, clients, matters, members, templates, copies, saved>>

\* The creator becomes a member of what belongs to its own tenant.
Membership(u, tenant, what) == IF users[u] = tenant THEN {<<u, what>>} ELSE {}

\* A custodian of the client changes nothing that is kept here.
CreateClient(p, t, c) ==
    /\ Command /\ t \in DOMAIN parents /\ CanAdminTenant(p, t)
    /\ c \notin DOMAIN clients
    /\ clients' = Insert(clients, c, t)
    /\ members' = members \cup Membership(p, t, c)
    /\ UNCHANGED <<parents, users, matters, templates, copies, saved>>

\* A matter with its definitions and groups; its first search operation is
\* SearchProjection's.
AddMatter(p, c, m, configuration) ==
    /\ m \notin DOMAIN matters
    /\ matters' = Insert(matters, m, [client |-> c, definitions |-> configuration.definitions,
                                       groups |-> configuration.groups])
    /\ members' = members \cup Membership(p, clients[c], m)

CreateMatter(p, c, m) ==
    /\ Command /\ c \in DOMAIN clients /\ CanAdminClient(p, c)
    /\ AddMatter(p, c, m, DefaultConfiguration)
    /\ UNCHANGED <<parents, users, clients, templates, copies, saved>>

(***************************************************************************)
(* Definitions, groups and the copies of a configuration.                  *)
(***************************************************************************)
AddField(p, m, k) ==
    /\ Command /\ CanAdminMatter(p, m)
    /\ k \notin DOMAIN matters[m].definitions
    /\ matters' = [matters EXCEPT ![m].definitions = Insert(@, k, "ACTIVE")]
    /\ UNCHANGED <<parents, users, clients, members, templates, copies, saved>>

ArchiveField(p, m, k) ==
    /\ Command /\ CanAdminMatter(p, m)
    /\ k \in CustomFields \cap DOMAIN matters[m].definitions
    /\ matters' = [matters EXCEPT ![m].definitions[k] = "ARCHIVED"]
    /\ UNCHANGED <<parents, users, clients, members, templates, copies, saved>>

\* One key for all shared groups, one for each owner of personal ones.
CreateMetadataGroup(p, m, key, scope, fields) ==
    /\ Command /\ CanAdminMatter(p, m)
    /\ fields # {} /\ fields \subseteq Usable(m)
    /\ ~\E g \in matters[m].groups :
          g.key = key /\ (g.scope = "PERSONAL") = (scope = "PERSONAL") /\ (scope = "PERSONAL" => g.owner = p)
    /\ matters' = [matters EXCEPT ![m].groups =
            @ \cup {[key |-> key, scope |-> scope, owner |-> p, fields |-> fields]}]
    /\ UNCHANGED <<parents, users, clients, members, templates, copies, saved>>

\* The first read of snapshot_matter_configuration: the definitions that are not
\* archived.  It is made for a template, or for a matter that clones this one.
BeginCopy(q, p, m, kind, target) ==
    /\ Command /\ copies[q].pc = "idle"
    /\ CanAdminMatter(p, m)
    /\ kind = "clone" => /\ target \in DOMAIN clients
                         /\ TenantOf(m) = clients[target] /\ CanAdminClient(p, target)
    /\ copies' = [copies EXCEPT ![q] =
            [pc |-> "read", user |-> p, source |-> m, kind |-> kind, target |-> target,
             definitions |-> [k \in Usable(m) |-> matters[m].definitions[k]]]]
    /\ UNCHANGED <<parents, users, clients, matters, members, templates, saved>>

\* The fields of a group as its rows have them.
MutantCopiedFields(group, definitions) == group.fields

\* The fields of a group whose definitions the copy has.
CopiedFields(group, definitions) == group.fields \cap DOMAIN definitions

\* The second read: the shared groups with their fields.
Snapshot(q) ==
    [definitions |-> copies[q].definitions,
     groups |-> {[g EXCEPT !.owner = copies[q].user, !.fields = CopiedFields(g, copies[q].definitions)] :
                    g \in {h \in matters[copies[q].source].groups : h.scope # "PERSONAL"}}]

\* What instantiate_configuration_snapshot accepts.
Instantiable(configuration) ==
    /\ configuration.definitions # <<>>
    /\ \A g \in configuration.groups : g.scope # "PERSONAL" /\ g.fields \subseteq DOMAIN configuration.definitions
    /\ \A g, h \in configuration.groups : g.key = h.key => g = h

CreateMatterTemplate(q, scope) ==
    LET m == copies[q].source
    IN  /\ copies[q].pc = "read" /\ copies[q].kind = "template"
        /\ templates' = templates \cup
                {[tenant |-> TenantOf(m), client |-> IF scope = "CLIENT" THEN {matters[m].client} ELSE {},
                  configuration |-> Snapshot(q)]}
        /\ copies' = [copies EXCEPT ![q] = IdleCopy]
        /\ UNCHANGED <<parents, users, clients, matters, members, saved, commands>>

CloneMatter(q, m) ==
    /\ copies[q].pc = "read" /\ copies[q].kind = "clone"
    /\ Instantiable(Snapshot(q))
    /\ AddMatter(copies[q].user, copies[q].target, m, Snapshot(q))
    /\ copies' = [copies EXCEPT ![q] = IdleCopy]
    /\ UNCHANGED <<parents, users, clients, templates, saved, commands>>

CreateFromTemplate(p, c, m, template) ==
    /\ Command /\ c \in DOMAIN clients /\ CanAdminClient(p, c)
    /\ template.tenant = clients[c] /\ template.client \subseteq {c}
    /\ Instantiable(template.configuration)
    /\ AddMatter(p, c, m, template.configuration)
    /\ UNCHANGED <<parents, users, clients, templates, copies, saved>>

(***************************************************************************)
(* Saved searches.                                                         *)
(***************************************************************************)
Visibilities == {"PRIVATE", "PUBLIC", "SHARED"}

\* A user sees its own, public and shared searches of a matter it administers.
CanReadSearch(u, s) ==
    /\ CanAdminMatter(u, s.matter)
    /\ s.owner = u \/ s.visibility = "PUBLIC" \/ (s.visibility = "SHARED" /\ u \in s.shares)

SaveSearch(p, m, name, visibility, shares) ==
    /\ Command /\ CanAdminMatter(p, m)
    /\ \A u \in shares : u # p /\ users[u] = TenantOf(m)
    /\ ~\E s \in saved : s.owner = p /\ s.matter = m /\ s.name = name
    /\ saved' = saved \cup {[owner |-> p, matter |-> m, name |-> name, visibility |-> visibility, shares |-> shares]}
    /\ UNCHANGED <<parents, users, clients, matters, members, templates, copies>>

\* Only the owner replaces or deletes a search.
UpdateSearch(p, s, visibility, shares) ==
    /\ Command /\ CanReadSearch(p, s) /\ s.owner = p
    /\ \A u \in shares : u # p /\ users[u] = TenantOf(s.matter)
    /\ saved' = (saved \ {s}) \cup {[s EXCEPT !.visibility = visibility, !.shares = shares]}
    /\ UNCHANGED <<parents, users, clients, matters, members, templates, copies>>

DeleteSearch(p, s) ==
    /\ Command /\ CanReadSearch(p, s) /\ s.owner = p
    /\ saved' = saved \ {s}
    /\ UNCHANGED <<parents, users, clients, matters, members, templates, copies>>

AdminNext ==
    \/ \E p \in DOMAIN users :
        \/ \E t \in Tenants, parent \in DOMAIN parents, u \in Users : CreateTenant(p, t, parent, u)
        \/ \E t \in DOMAIN parents, u \in Users : CreateTenantUser(p, t, u)
        \/ \E t \in DOMAIN parents, c \in Clients : CreateClient(p, t, c)
        \/ \E c \in DOMAIN clients, m \in Matters :
            CreateMatter(p, c, m) \/ \E template \in templates : CreateFromTemplate(p, c, m, template)
        \/ \E m \in DOMAIN matters :
            \/ \E k \in CustomFields : AddField(p, m, k) \/ ArchiveField(p, m, k)
            \/ \E key \in Groups, scope \in {"MATTER", "PERSONAL"}, fields \in SUBSET Usable(m) :
                    CreateMetadataGroup(p, m, key, scope, fields)
            \/ \E q \in Copies : BeginCopy(q, p, m, "template", matters[m].client)
            \/ \E q \in Copies, c \in DOMAIN clients : BeginCopy(q, p, m, "clone", c)
            \/ \E name \in Searches, v \in Visibilities, shares \in SUBSET DOMAIN users :
                    SaveSearch(p, m, name, v, shares)
        \/ \E s \in saved : \/ DeleteSearch(p, s)
                            \/ \E v \in Visibilities, shares \in SUBSET DOMAIN users : UpdateSearch(p, s, v, shares)
    \/ \E q \in Copies : \/ \E scope \in {"TENANT", "CLIENT"} : CreateMatterTemplate(q, scope)
                         \/ \E m \in Matters : CloneMatter(q, m)

AdminSpec == AdminInit /\ [][AdminNext]_adminVars

(***************************************************************************)
(* Properties.                                                             *)
(***************************************************************************)
AdminTypeOK ==
    /\ \A u \in DOMAIN users : users[u] \in DOMAIN parents
    /\ \A m \in DOMAIN matters : matters[m].client \in DOMAIN clients
    /\ \A s, t \in saved : s.owner = t.owner /\ s.matter = t.matter /\ s.name = t.name => s = t

\* However definitions and groups change while a configuration is read, each
\* template can be instantiated, and each matter has the definitions its groups name;
\* and memberships stay within a tenant, whatever users and matters are created.
TenantsAreClosed ==
    /\ \A template \in templates : Instantiable(template.configuration)
    /\ \A m \in DOMAIN matters : \A g \in matters[m].groups : g.fields \subseteq DOMAIN matters[m].definitions
    /\ \A member \in members :
          users[member[1]] = IF member[2] \in DOMAIN clients THEN clients[member[2]] ELSE TenantOf(member[2])
===============================================================================
