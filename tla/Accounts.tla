------------------------------ MODULE Accounts ------------------------------
(***************************************************************************)
(* The accounts, the shops and the settings of MechMind, kept in           *)
(* PostgreSQL: registration, login and the admin's requests                *)
(* (internal/api/server.go, internal/store/store.go), and the super admin  *)
(* that a starting server makes (cmd/api/main.go).  Servers start, stop    *)
(* and serve at the same time on one database.                             *)
(*                                                                         *)
(* A statement outside a transaction is a step.  A registration is a       *)
(* transaction at READ COMMITTED: its rows are seen when it has committed, *)
(* and an INSERT of an e-mail waits for the transaction that has inserted  *)
(* it (UNIQUE).  A shop is known by its invite code.  No row is deleted,   *)
(* and only "active" is updated.                                           *)
(***************************************************************************)
EXTENDS Naturals, FiniteSets

CONSTANTS
  Servers,  \* processes of cmd/api
  Requests, \* registrations and logins under way at a time
  Emails, Boss, \* Boss is BOOTSTRAP_ADMIN_EMAIL, in lower case
  Shops,    \* fresh ids
  None,
  MaxStarts, MaxRequests, MaxAdmin \* bounds on starts, requests and admin's requests

Roles == {"super_admin", "org_admin", "technician"}

\* The rows of technicians.
TechRecs ==
  [role : Roles, shop : Shops \cup {None}, active : BOOLEAN, allowed : BOOLEAN]

ASSUME AccountsAssumption ==
  /\ Boss \in Emails
  /\ None \notin Emails \cup Shops \cup Roles \cup {"new", "wrong"}
  /\ None \notin TechRecs
  /\ MaxStarts \in Nat /\ MaxRequests \in Nat /\ MaxAdmin \in Nat

VARIABLES
  settings, \* [open, invite]: allow_self_register, require_invite_code
  shops,    \* organizations: [id, by], "by" observes who founded it
  techs,    \* technicians by e-mail
  tokens,   \* the claims of the tokens that were issued
  server,
  req,      \* the handlers of register and login
  load      \* what is left of the bounds

vars == <<settings, shops, techs, tokens, server, req, load>>

\* "allowed" observes that the settings let the account in.
Account(role, shop, allowed) ==
  [role |-> role, shop |-> shop, active |-> TRUE, allowed |-> allowed]

\* "code" is an invite, a "wrong" one or a new shop without a name, or a "new" shop.
\* "open" and "free" observe whether registration was allowed, and without an invite, at a
\* time since it began.
NoRequest ==
  [ pc |-> "idle", on |-> None, email |-> None, code |-> None, required |-> FALSE,
    shop |-> None, role |-> None, open |-> FALSE, free |-> FALSE ]

\* The tables as the migrations leave them.  "died" observes how often in a row the start
\* of a server ended at the bootstrap.
Init ==
  /\ settings = [open |-> TRUE, invite |-> FALSE]
  /\ shops = {}
  /\ techs = [e \in Emails |-> None]
  /\ tokens = {}
  /\ server = [s \in Servers |-> [pc |-> "off", died |-> 0]]
  /\ req = [r \in Requests |-> NoRequest]
  /\ load = [starts |-> MaxStarts, requests |-> MaxRequests, admin |-> MaxAdmin]
-----------------------------------------------------------------------------
Exists(e)  == techs[e] # None
ShopIds    == { o.id : o \in shops }
At(r, pc)  == req[r].pc = pc
Serving    == { s \in Servers : server[s].pc = "serve" }

\* A transaction has the e-mail, or the shop, in a row it has not committed.
Held(e)  == \E r \in Requests : At(r, "commit") /\ req[r].email = e
NewShops == { req[r].shop : r \in { q \in Requests : req[q].role = "org_admin" } }
Fresh    == Shops \ (ShopIds \cup NewShops)

SuperAdmins == { e \in Emails : Exists(e) /\ techs[e].role = "super_admin" }
-----------------------------------------------------------------------------
(* Servers *)

\* With or without BOOTSTRAP_ADMIN_* in its environment.
Starts(s) ==
  /\ server[s].pc \in {"off", "dead"}
  /\ load.starts > 0
  /\ load' = [load EXCEPT !.starts = @ - 1]
  /\ \E boot \in BOOLEAN :
       server' = [server EXCEPT ![s] =
         IF boot THEN [pc |-> "count", died |-> @.died] ELSE [pc |-> "serve", died |-> 0]]
  /\ UNCHANGED <<settings, shops, techs, tokens, req>>

\* Mutant of Counts: active ones only.
CountsActive(s) ==
  /\ server[s].pc = "count"
  /\ server' = [server EXCEPT ![s] =
       IF \E e \in SuperAdmins : techs[e].active
       THEN [pc |-> "serve", died |-> 0] ELSE [pc |-> "insert", died |-> @.died]]
  /\ UNCHANGED <<settings, shops, techs, tokens, req, load>>

\* CountByRole.  The hash of the password comes before the INSERT and takes its time.
Counts(s) ==
  /\ server[s].pc = "count"
  /\ server' = [server EXCEPT ![s] =
       IF SuperAdmins # {}
       THEN [pc |-> "serve", died |-> 0] ELSE [pc |-> "insert", died |-> @.died]]
  /\ UNCHANGED <<settings, shops, techs, tokens, req, load>>

\* The INSERT, or log.Fatal over the e-mail that is there.
Bootstraps(s) ==
  /\ server[s].pc = "insert"
  /\ ~Held(Boss)
  /\ IF Exists(Boss)
     THEN /\ server' = [server EXCEPT ![s] = [pc |-> "dead", died |-> @.died + 1]]
          /\ UNCHANGED techs
     ELSE /\ server' = [server EXCEPT ![s] = [pc |-> "serve", died |-> 0]]
          /\ techs' = [techs EXCEPT ![Boss] = Account("super_admin", None, TRUE)]
  /\ UNCHANGED <<settings, shops, tokens, req, load>>

\* A stop, a crash or a lost database; its transactions are rolled back.
Stops(s) ==
  /\ server[s].pc \notin {"off", "dead"}
  /\ server' = [server EXCEPT ![s].pc = "off"]
  /\ req' = [r \in Requests |-> IF req[r].on = s THEN NoRequest ELSE req[r]]
  /\ UNCHANGED <<settings, shops, techs, tokens, load>>
-----------------------------------------------------------------------------
(* Registration *)

Ends(r) == req' = [req EXCEPT ![r] = NoRequest]

\* The e-mail is trimmed and in lower case.
Registers(r) ==
  /\ At(r, "idle")
  /\ load.requests > 0
  /\ load' = [load EXCEPT !.requests = @ - 1]
  /\ \E s \in Serving, e \in Emails, code \in ShopIds \cup {"new", "wrong"} :
       req' = [req EXCEPT ![r] = [NoRequest EXCEPT
                 !.pc = "allow", !.on = s, !.email = e, !.code = code,
                 !.open = settings.open, !.free = ~settings.invite]]
  /\ UNCHANGED <<settings, shops, techs, tokens, server>>

\* Mutant of ReadsAllow: a setting that cannot be read allows.
AllowsUnread(r) ==
  /\ At(r, "allow")
  /\ \E failed \in BOOLEAN :
       IF settings.open \/ failed
       THEN req' = [req EXCEPT ![r].pc = "required"] ELSE Ends(r)
  /\ UNCHANGED <<settings, shops, techs, tokens, server, load>>

\* A setting that cannot be read refuses.
ReadsAllow(r) ==
  /\ At(r, "allow")
  /\ \E failed \in BOOLEAN :
       IF settings.open /\ ~failed
       THEN req' = [req EXCEPT ![r].pc = "required"] ELSE Ends(r)
  /\ UNCHANGED <<settings, shops, techs, tokens, server, load>>

\* Here the error is dropped, and no invite is required.
ReadsRequired(r) ==
  /\ At(r, "required")
  /\ \E failed \in BOOLEAN :
       req' = [req EXCEPT ![r].pc = "shop", ![r].required = settings.invite /\ ~failed,
                          ![r].free = @ \/ failed]
  /\ UNCHANGED <<settings, shops, techs, tokens, server, load>>

\* Mutant of FindsShop: the new shop is not part of the transaction.
FoundsShopAlone(r) ==
  /\ At(r, "shop")
  /\ \/ /\ req[r].code \in ShopIds
        /\ req' = [req EXCEPT ![r].pc = "insert", ![r].shop = req[r].code,
                              ![r].role = "technician"]
        /\ UNCHANGED shops
     \/ /\ req[r].code = "new"
        /\ ~req[r].required
        /\ \E o \in Fresh :
             /\ shops' = shops \cup {[id |-> o, by |-> req[r].email]}
             /\ req' = [req EXCEPT ![r].pc = "insert", ![r].shop = o,
                                   ![r].role = "org_admin"]
     \/ /\ \/ req[r].code = "wrong"
           \/ req[r].code = "new" /\ req[r].required
        /\ Ends(r)
        /\ UNCHANGED shops
  /\ UNCHANGED <<settings, techs, tokens, server, load>>

\* The shop of the invite, or a new one with this account as its admin.
FindsShop(r) ==
  /\ At(r, "shop")
  /\ \/ /\ req[r].code \in ShopIds
        /\ req' = [req EXCEPT ![r].pc = "insert", ![r].shop = req[r].code,
                              ![r].role = "technician"]
     \/ /\ req[r].code = "new"
        /\ ~req[r].required
        /\ \E o \in Fresh :
             req' = [req EXCEPT ![r].pc = "insert", ![r].shop = o, ![r].role = "org_admin"]
     \/ /\ \/ req[r].code = "wrong"
           \/ req[r].code = "new" /\ req[r].required
        /\ Ends(r)
  /\ UNCHANGED <<settings, shops, techs, tokens, server, load>>

\* ErrEmailTaken, or the row is in the transaction.
InsertsTech(r) ==
  /\ At(r, "insert")
  /\ ~Held(req[r].email)
  /\ IF Exists(req[r].email) THEN Ends(r) ELSE req' = [req EXCEPT ![r].pc = "commit"]
  /\ UNCHANGED <<settings, shops, techs, tokens, server, load>>

\* The server may not learn that it has committed.
Commits(r) ==
  LET q == req[r] IN
  /\ At(r, "commit")
  /\ techs' = [techs EXCEPT ![q.email] =
       Account(q.role, q.shop, q.open /\ (q.role = "org_admin" => q.free))]
  /\ shops' = IF q.role = "org_admin"
              THEN shops \cup {[id |-> q.shop, by |-> q.email]} ELSE shops
  /\ \/ req' = [req EXCEPT ![r].pc = "issue"]
     \/ Ends(r)
  /\ UNCHANGED <<settings, tokens, server, load>>

\* A statement fails, or the client is gone: the transaction is rolled back.
Fails(r) ==
  /\ ~At(r, "idle")
  /\ Ends(r)
  /\ UNCHANGED <<settings, shops, techs, tokens, server, load>>
-----------------------------------------------------------------------------
(* Login and the admin's requests *)

\* Authenticate with the right password; every other login changes nothing.
Authenticates(r) ==
  /\ At(r, "idle")
  /\ load.requests > 0
  /\ load' = [load EXCEPT !.requests = @ - 1]
  /\ \E s \in Serving, e \in Emails :
       /\ Exists(e)
       /\ techs[e].active
       /\ req' = [req EXCEPT ![r] = [NoRequest EXCEPT !.pc = "issue", !.on = s, !.email = e,
                    !.role = techs[e].role, !.shop = techs[e].shop]]
  /\ UNCHANGED <<settings, shops, techs, tokens, server>>

\* The claims are those of the account as it was made or read.
Issues(r) ==
  /\ At(r, "issue")
  /\ tokens' = tokens \cup
       {[email |-> req[r].email, role |-> req[r].role, shop |-> req[r].shop]}
  /\ Ends(r)
  /\ UNCHANGED <<settings, shops, techs, server, load>>

\* A request with the role of a token, on a server that is up.
Asks(roles) ==
  /\ Serving # {}
  /\ load.admin > 0
  /\ load' = [load EXCEPT !.admin = @ - 1]
  /\ \E c \in tokens : c.role \in roles

\* patchSetting; a registration under way sees what it may still read.
PatchesSetting ==
  /\ Asks({"super_admin"})
  /\ \E key \in {"open", "invite"}, value \in BOOLEAN :
       settings' = [settings EXCEPT ![key] = value]
  /\ req' = [r \in Requests |->
       [req[r] EXCEPT !.open = @ \/ (~At(r, "idle") /\ settings'.open),
                      !.free = @ \/ (~At(r, "idle") /\ ~settings'.invite)]]
  /\ UNCHANGED <<shops, techs, tokens, server>>

\* createOrg: a shop without an admin of its own.
CreatesShop ==
  /\ Asks({"super_admin"})
  /\ \E o \in Fresh : shops' = shops \cup {[id |-> o, by |-> None]}
  /\ UNCHANGED <<settings, techs, tokens, server, req>>

\* setActive: an org admin for the accounts of his shop, his own included.  The shop of
\* the target, read first, never changes.
SetsActive ==
  /\ Asks({"super_admin", "org_admin"})
  /\ \E c \in tokens, e \in Emails, active \in BOOLEAN :
       /\ Exists(e)
       /\ \/ c.role = "super_admin"
          \/ c.role = "org_admin" /\ techs[e].shop = c.shop
       /\ techs' = [techs EXCEPT ![e].active = active]
  /\ UNCHANGED <<settings, shops, tokens, server, req>>

Next ==
  \/ \E s \in Servers : Starts(s) \/ Counts(s) \/ Bootstraps(s) \/ Stops(s)
  \/ \E r \in Requests :
       \/ Registers(r) \/ ReadsAllow(r) \/ ReadsRequired(r) \/ FindsShop(r)
       \/ InsertsTech(r) \/ Commits(r) \/ Fails(r) \/ Authenticates(r) \/ Issues(r)
  \/ PatchesSetting \/ CreatesShop \/ SetsActive

Spec == Init /\ [][Next]_vars
-----------------------------------------------------------------------------
(* Properties *)

TokenRecs  == [email : Emails, role : Roles, shop : Shops \cup {None}]
ServerRecs == [pc : {"off", "count", "insert", "serve", "dead"}, died : Nat]
PCs        == {"idle", "allow", "required", "shop", "insert", "commit", "issue"}
ReqRecs    ==
  [ pc : PCs, on : Servers \cup {None}, email : Emails \cup {None},
    code : Shops \cup {"new", "wrong", None}, required : BOOLEAN,
    shop : Shops \cup {None}, role : Roles \cup {None}, open : BOOLEAN, free : BOOLEAN ]

TypeOK ==
  /\ settings \in [open : BOOLEAN, invite : BOOLEAN]
  /\ shops \subseteq [id : Shops, by : Emails \cup {None}]
  /\ techs \in [Emails -> {None} \cup TechRecs]
  /\ tokens \subseteq TokenRecs
  /\ server \in [Servers -> ServerRecs]
  /\ req \in [Requests -> ReqRecs]
  /\ load \in [starts : Nat, requests : Nat, admin : Nat]

\* An account was allowed and has its shop; the founder is the admin of it.
TechOK(e) ==
  Exists(e) =>
    /\ techs[e].allowed
    /\ techs[e].role = "org_admin" => [id |-> techs[e].shop, by |-> e] \in shops
    /\ techs[e].role = "technician" => techs[e].shop \in ShopIds

ShopOK(o) ==
  /\ o.by # None => /\ Exists(o.by)
                    /\ techs[o.by].role = "org_admin" /\ techs[o.by].shop = o.id
  /\ \A p \in shops : p.id = o.id => p = o

\* What a handler has seen, and what its transaction will add.
RequestOK(q) ==
  /\ q.pc # "idle" => q.email \in Emails
  /\ q.pc \in {"idle", "allow", "required", "shop"} => q.role = None
  /\ q.pc \in {"required", "shop", "insert", "commit"} => q.open
  /\ q.pc \in {"allow", "required"} => settings.invite \/ q.free
  /\ q.pc = "allow" /\ settings.open => q.open
  /\ q.pc = "shop" => q.required \/ q.free
  /\ q.pc \in {"insert", "commit"} =>
       \/ q.role = "technician" /\ q.shop \in ShopIds
       \/ q.role = "org_admin" /\ q.shop \in Shops \ ShopIds /\ q.free
  /\ q.pc = "commit" => ~Exists(q.email)
  /\ q.pc = "issue" => q.role \in Roles

\* Two transactions do not add the same shop or the same e-mail.
Apart(q, p) ==
  /\ q.pc \in {"insert", "commit"} /\ p.pc \in {"insert", "commit"} =>
       ~(q.role = "org_admin" /\ p.role = "org_admin" /\ q.shop = p.shop)
  /\ q.pc = "commit" /\ p.pc = "commit" => q.email # p.email

\* A server that died found the e-mail; one that will die of it again finds it for good.
ServerOK(v) ==
  /\ v.died > 0 => Exists(Boss)
  /\ (v.died > 0 /\ v.pc = "insert") \/ v.died > 1 => Boss \notin SuperAdmins

AccountsInv ==
  /\ \A e \in Emails : TechOK(e)
  /\ \A o \in shops : ShopOK(o)
  /\ \A r \in Requests : RequestOK(req[r])
  /\ \A r, s \in Requests : r # s => Apart(req[r], req[s])
  /\ \A s \in Servers : ServerOK(server[s])

\* A registration is all or nothing: a shop that was not made by the super admin has its
\* founder as its only admin, however many registrations met on one e-mail and wherever
\* a server stopped; one the super admin made has none; and every account is of a shop.
FounderOwnsShop ==
  LET admins(o) == { e \in Emails : Exists(e) /\ techs[e].role = "org_admin"
                                      /\ techs[e].shop = o } IN
  /\ \A o \in shops : admins(o.id) = IF o.by = None THEN {} ELSE {o.by}
  /\ \A e \in Emails : Exists(e) =>
       techs[e].role = "super_admin" \/ techs[e].shop \in ShopIds

\* Of servers that start together one makes the super admin and the others may die of
\* his e-mail, but one that is started again comes up, whatever was done to the account
\* since.  Only an account that was registered under the e-mail before stands in the way.
RestartHeals ==
  \A s \in Servers : server[s].died > 1 => Boss \notin SuperAdmins

\* Whoever registered was allowed to by the settings at some time of the request; a
\* setting that could not be read refuses, but for require_invite_code.
RulesInForce == \A e \in Emails : Exists(e) => techs[e].allowed
=============================================================================
