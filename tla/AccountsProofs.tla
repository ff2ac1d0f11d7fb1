--------------------------- MODULE AccountsProofs ---------------------------
(***************************************************************************)
(* The accounts, for any number of servers, requests, e-mails, shops and   *)
(* starts.  Inv is inductive: what a transaction will add is fit to be     *)
(* added (RequestOK), no two will add the same (Apart), and a server that  *)
(* died of the super admin's e-mail knows of an account (ServerOK).        *)
(***************************************************************************)
EXTENDS Accounts, TLAPS

USE AccountsAssumption DEF AccountsAssumption

Inv == TypeOK /\ AccountsInv

Loads == [starts : Nat, requests : Nat, admin : Nat]

\* A request at another place.
LEMMA PcMoves ==
  ASSUME NEW q \in ReqRecs, NEW pc \in PCs
  PROVE  LET p == [q EXCEPT !.pc = pc] IN
           /\ p \in ReqRecs /\ p.pc = pc /\ p.email = q.email /\ p.required = q.required
           /\ p.shop = q.shop /\ p.role = q.role /\ p.open = q.open /\ p.free = q.free
  BY DEF ReqRecs

\* No request.
LEMMA NoRequestIsIdle ==
  NoRequest \in ReqRecs /\ NoRequest.pc = "idle" /\ NoRequest.role = None
  BY DEF NoRequest, ReqRecs, PCs

\* A request that is not in its transaction is apart from every other.
LEMMA OutsideIsApart ==
  ASSUME NEW q, NEW p, q.pc \notin {"insert", "commit"}
  PROVE  Apart(q, p) /\ Apart(p, q)
  BY DEF Apart

\* One request changes, and the tables stay.
LEMMA RequestStep ==
  ASSUME Inv, NEW r \in Requests, NEW q \in ReqRecs, req' = [req EXCEPT ![r] = q],
         UNCHANGED <<settings, shops, techs, server>>,
         RequestOK(q),
         \A s \in Requests : s # r => Apart(q, req[s]) /\ Apart(req[s], q),
         tokens' \subseteq TokenRecs, load' \in Loads
  PROVE  Inv'
<1>1. /\ req' \in [Requests -> ReqRecs] /\ req'[r] = q
      /\ \A s \in Requests : s # r => req'[s] = req[s]
  BY DEF Inv, TypeOK
<1>2. TypeOK'
  BY <1>1 DEF Inv, TypeOK, Loads
<1>3. ShopIds' = ShopIds /\ settings' = settings /\ shops' = shops /\ techs' = techs
      /\ server' = server /\ SuperAdmins' = SuperAdmins /\ \A e : Exists(e)' <=> Exists(e)
  BY DEF ShopIds, SuperAdmins, Exists
<1>4. ASSUME NEW s \in Requests PROVE RequestOK(req[s])'
  <2>1. RequestOK(req'[s])
    BY <1>1 DEF Inv, AccountsInv
  <2>. QED BY <1>3, <2>1, Zenon DEF RequestOK
<1>5. \A s, t \in Requests : s # t => Apart(req[s], req[t])'
  BY <1>1 DEF Inv, AccountsInv, Apart
<1>6. /\ \A e \in Emails : TechOK(e)'
      /\ \A o \in shops' : ShopOK(o)'
      /\ \A v \in Servers : ServerOK(server[v])'
  BY <1>3, Zenon DEF Inv, AccountsInv, TechOK, ShopOK, ServerOK
<1>7. AccountsInv'
  BY <1>4, <1>5, <1>6, Zenon DEF AccountsInv
<1>. QED BY <1>2, <1>7 DEF Inv

\* A request that is over: the client has its answer, or nobody has.
LEMMA EndStep ==
  ASSUME Inv, NEW r \in Requests, Ends(r), UNCHANGED <<settings, shops, techs, server>>,
         tokens' \subseteq TokenRecs, load' \in Loads
  PROVE  Inv'
<1>1. req' = [req EXCEPT ![r] = NoRequest]
  BY DEF Ends
<1>2. RequestOK(NoRequest)
  BY NoRequestIsIdle DEF RequestOK
<1>3. \A s \in Requests : Apart(NoRequest, req[s]) /\ Apart(req[s], NoRequest)
  BY NoRequestIsIdle, OutsideIsApart
<1>. QED BY <1>1, <1>2, <1>3, NoRequestIsIdle, RequestStep
-----------------------------------------------------------------------------
(* Registration and login *)

\* What Inv says of one request.
LEMMA Own ==
  ASSUME Inv, NEW r \in Requests
  PROVE  /\ req[r] \in ReqRecs /\ RequestOK(req[r])
         /\ \A s \in Requests : s # r => Apart(req[r], req[s]) /\ Apart(req[s], req[r])
         /\ settings.open \in BOOLEAN /\ settings.invite \in BOOLEAN
         /\ tokens \subseteq TokenRecs /\ load \in Loads
  BY DEF Inv, TypeOK, AccountsInv, Loads

\* A request that is not in its transaction only has to be fit itself.
LEMMA OutsideStep ==
  ASSUME Inv, NEW r \in Requests, NEW q \in ReqRecs, req' = [req EXCEPT ![r] = q],
         UNCHANGED <<settings, shops, techs, server>>,
         RequestOK(q), q.pc \notin {"insert", "commit"},
         tokens' \subseteq TokenRecs, load' \in Loads
  PROVE  Inv'
  BY OutsideIsApart, RequestStep

LEMMA RegistersKeeps == ASSUME Inv, NEW r \in Requests, Registers(r) PROVE Inv'
<1>1. PICK s \in Serving, e \in Emails, code \in ShopIds \cup {"new", "wrong"} :
        req' = [req EXCEPT ![r] = [NoRequest EXCEPT
                 !.pc = "allow", !.on = s, !.email = e, !.code = code,
                 !.open = settings.open, !.free = ~settings.invite]]
  BY DEF Registers
<1>1a. s \in Servers /\ code \in Shops \cup {"new", "wrong"}
  BY <1>1 DEF Serving, ShopIds, Inv, TypeOK
<1>2. PICK a \in BOOLEAN, b \in BOOLEAN : a = settings.open /\ b = ~settings.invite
  BY Own
<1>. DEFINE q == [NoRequest EXCEPT !.pc = "allow", !.on = s, !.email = e,
                    !.code = code, !.open = a, !.free = b]
<1>3. /\ q \in ReqRecs /\ q.pc = "allow" /\ q.email = e /\ q.role = None
      /\ q.open = a /\ q.free = b
  BY <1>1a, <1>2 DEF NoRequest, ReqRecs, PCs
<1>4. req' = [req EXCEPT ![r] = q]
  BY <1>1, <1>2, Zenon
<1>. HIDE DEF q
<1>5. RequestOK(q)
  BY <1>2, <1>3 DEF RequestOK
<1>6. tokens' \subseteq TokenRecs /\ load' \in Loads
  BY Own DEF Registers, Loads
<1>7. UNCHANGED <<settings, shops, techs, server>>
  BY DEF Registers
<1>. QED BY <1>3, <1>4, <1>5, <1>6, <1>7, OutsideStep

\* The two answers to a setting that is read: the next place, or the end.
LEMMA ReadsAllowKeeps == ASSUME Inv, NEW r \in Requests, ReadsAllow(r) PROVE Inv'
<1>1. /\ req[r].pc = "allow"
      /\ UNCHANGED <<settings, shops, techs, server, tokens, load>>
  BY DEF ReadsAllow, At
<1>2. CASE Ends(r)
  BY <1>1, <1>2, Own, EndStep
<1>3. CASE settings.open /\ req' = [req EXCEPT ![r].pc = "required"]
  <2>. DEFINE q == [req[r] EXCEPT !.pc = "required"]
  <2>1. "required" \in PCs
    BY DEF PCs
  <2>2. /\ q \in ReqRecs /\ q.pc = "required" /\ q.email = req[r].email /\ q.role = req[r].role
        /\ q.open = req[r].open /\ q.free = req[r].free
    BY <2>1, Own, PcMoves, Zenon
  <2>3. req' = [req EXCEPT ![r] = q]
    BY <1>3
  <2>. HIDE DEF q
  <2>4. RequestOK(q)
    BY <1>1, <1>3, <2>2, Own DEF RequestOK
  <2>. QED BY <1>1, <2>2, <2>3, <2>4, Own, OutsideStep
<1>. QED BY <1>2, <1>3 DEF ReadsAllow

LEMMA ReadsRequiredKeeps == ASSUME Inv, NEW r \in Requests, ReadsRequired(r) PROVE Inv'
<1>1. /\ req[r].pc = "required"
      /\ UNCHANGED <<settings, shops, techs, server, tokens, load>>
  BY DEF ReadsRequired, At
<1>2. PICK failed \in BOOLEAN :
        req' = [req EXCEPT ![r] = [req[r] EXCEPT
                  !.pc = "shop", !.required = settings.invite /\ ~failed,
                  !.free = req[r].free \/ failed]]
  BY DEF ReadsRequired
<1>3. PICK b \in BOOLEAN, f \in BOOLEAN :
        b = (settings.invite /\ ~failed) /\ f = (req[r].free \/ failed)
  BY Own
<1>4. PICK x \in ReqRecs : x = req[r]
  BY Own
<1>. DEFINE q == [x EXCEPT !.pc = "shop", !.required = b, !.free = f]
<1>5. /\ q \in ReqRecs /\ q.pc = "shop" /\ q.email = x.email /\ q.required = b
      /\ q.role = x.role /\ q.open = x.open /\ q.free = f
  BY DEF ReqRecs, PCs
<1>6. req' = [req EXCEPT ![r] = q]
  BY <1>2, <1>3, <1>4, Zenon
<1>. HIDE DEF q
<1>7. RequestOK(q)
  BY <1>1, <1>3, <1>5, <1>4, Own DEF RequestOK
<1>. QED BY <1>1, <1>5, <1>6, <1>7, Own, OutsideStep

\* The answer to a registration that is refused, rolled back or left by its client.
LEMMA FailsKeeps == ASSUME Inv, NEW r \in Requests, Fails(r) PROVE Inv'
<1>1. Ends(r) /\ UNCHANGED <<settings, shops, techs, tokens, server, load>>
  BY DEF Fails
<1>. QED BY <1>1, Own, EndStep

\* A request that enters its transaction, as a technician or with a shop of its own.
LEMMA FindsShopKeeps == ASSUME Inv, NEW r \in Requests, FindsShop(r) PROVE Inv'
<1>1. /\ req[r].pc = "shop" /\ UNCHANGED <<settings, shops, techs, server, tokens, load>>
  BY DEF FindsShop, At
<1>2. CASE Ends(r)
  BY <1>1, <1>2, Own, EndStep
<1>3. ASSUME NEW o \in Shops, NEW role \in Roles,
             req' = [req EXCEPT ![r].pc = "insert", ![r].shop = o, ![r].role = role],
             \/ role = "technician" /\ o \in ShopIds
             \/ role = "org_admin" /\ o \in Fresh /\ ~req[r].required
      PROVE  Inv'
  <2>1. PICK x \in ReqRecs : x = req[r]
    BY Own
  <2>. DEFINE q == [x EXCEPT !.pc = "insert", !.shop = o, !.role = role]
  <2>2. /\ q \in ReqRecs /\ q.pc = "insert" /\ q.email = x.email /\ q.shop = o
        /\ q.role = role /\ q.open = x.open /\ q.free = x.free
    BY DEF ReqRecs, PCs
  <2>3. req' = [req EXCEPT ![r] = q]
    BY <1>3, <2>1
  <2>. HIDE DEF q
  <2>4. /\ x.email \in Emails /\ x.open /\ (x.required \/ x.free)
    BY <1>1, <2>1, Own DEF RequestOK
  <2>5. \/ q.role = "technician" /\ q.shop \in ShopIds
        \/ q.role = "org_admin" /\ q.shop \in Shops \ ShopIds /\ q.free
    BY <1>3, <2>1, <2>2, <2>4 DEF Fresh
  <2>6. RequestOK(q)
    BY <2>2, <2>4, <2>5 DEF RequestOK
  <2>7. ASSUME NEW s \in Requests, s # r PROVE Apart(q, req[s]) /\ Apart(req[s], q)
    <3>1. ASSUME q.role = "org_admin", req[s].role = "org_admin" PROVE q.shop # req[s].shop
      <4>1. req[s].shop \in NewShops
        BY <3>1 DEF NewShops
      <4>2. o \in Fresh
        BY <1>3, <2>2, <3>1
      <4>. QED BY <2>2, <4>1, <4>2 DEF Fresh
    <3>. QED BY <2>2, <3>1 DEF Apart
  <2>. QED BY <1>1, <2>2, <2>3, <2>6, <2>7, Own, RequestStep
<1>4. CASE /\ req[r].code \in ShopIds
           /\ req' = [req EXCEPT ![r].pc = "insert", ![r].shop = req[r].code,
                                 ![r].role = "technician"]
  <2>1. req[r].code \in Shops /\ "technician" \in Roles
    BY <1>4 DEF ShopIds, Inv, TypeOK, Roles
  <2>. QED BY <1>3, <1>4, <2>1
<1>5. CASE /\ ~req[r].required
           /\ \E o \in Fresh :
                req' = [req EXCEPT ![r].pc = "insert", ![r].shop = o, ![r].role = "org_admin"]
  <2>1. \A o \in Fresh : o \in Shops
    BY DEF Fresh
  <2>2. "org_admin" \in Roles
    BY DEF Roles
  <2>. QED BY <1>3, <1>5, <2>1, <2>2
<1>. QED BY <1>2, <1>4, <1>5 DEF FindsShop

\* The row waits for those that have the e-mail, so no other has it when it is in.
LEMMA InsertsTechKeeps == ASSUME Inv, NEW r \in Requests, InsertsTech(r) PROVE Inv'
<1>1. /\ req[r].pc = "insert" /\ ~Held(req[r].email)
      /\ UNCHANGED <<settings, shops, techs, server, tokens, load>>
  BY DEF InsertsTech, At
<1>2. CASE Ends(r)
  BY <1>1, <1>2, Own, EndStep
<1>3. CASE ~Exists(req[r].email) /\ req' = [req EXCEPT ![r].pc = "commit"]
  <2>1. PICK x \in ReqRecs : x = req[r]
    BY Own
  <2>. DEFINE q == [x EXCEPT !.pc = "commit"]
  <2>2. "commit" \in PCs
    BY DEF PCs
  <2>3. /\ q \in ReqRecs /\ q.pc = "commit" /\ q.email = x.email /\ q.shop = x.shop
        /\ q.role = x.role /\ q.open = x.open /\ q.free = x.free
    BY <2>2, PcMoves, Zenon
  <2>4. req' = [req EXCEPT ![r] = q]
    BY <1>3, <2>1
  <2>. HIDE DEF q
  <2>5. RequestOK(q)
    BY <1>1, <1>3, <2>1, <2>3, Own DEF RequestOK
  <2>6. ASSUME NEW s \in Requests, s # r PROVE Apart(q, req[s]) /\ Apart(req[s], q)
    <3>1. req[s].pc = "commit" => req[s].email # q.email
      BY <1>1, <2>1, <2>3 DEF Held, At
    <3>2. Apart(req[r], req[s]) /\ Apart(req[s], req[r])
      BY <2>6, Own
    <3>. QED BY <1>1, <2>1, <2>3, <3>1, <3>2 DEF Apart
  <2>. QED BY <1>1, <2>3, <2>4, <2>5, <2>6, Own, RequestStep
<1>. QED BY <1>2, <1>3 DEF InsertsTech

\* A login with the right password; the account is one of the table.
LEMMA AuthenticatesKeeps == ASSUME Inv, NEW r \in Requests, Authenticates(r) PROVE Inv'
<1>1. PICK s \in Serving, e \in Emails :
        /\ techs[e] # None
        /\ req' = [req EXCEPT ![r] = [NoRequest EXCEPT !.pc = "issue", !.on = s, !.email = e,
                     !.role = techs[e].role, !.shop = techs[e].shop]]
  BY DEF Authenticates, Exists
<1>2. s \in Servers /\ techs[e] \in TechRecs
  BY <1>1 DEF Serving, Inv, TypeOK
<1>3. PICK role \in Roles, o \in Shops \cup {None} : role = techs[e].role /\ o = techs[e].shop
  BY <1>2 DEF TechRecs
<1>. DEFINE q == [NoRequest EXCEPT !.pc = "issue", !.on = s, !.email = e,
                    !.role = role, !.shop = o]
<1>4. q \in ReqRecs /\ q.pc = "issue" /\ q.email = e /\ q.role = role
  BY <1>2 DEF NoRequest, ReqRecs, PCs
<1>5. req' = [req EXCEPT ![r] = q]
  BY <1>1, <1>3, Zenon
<1>. HIDE DEF q
<1>6. RequestOK(q)
  BY <1>4 DEF RequestOK
<1>7. tokens' \subseteq TokenRecs /\ load' \in Loads
  BY Own DEF Authenticates, Loads
<1>8. UNCHANGED <<settings, shops, techs, server>>
  BY DEF Authenticates
<1>. QED BY <1>4, <1>5, <1>6, <1>7, <1>8, OutsideStep

\* A token for the account of a request that is done.
LEMMA IssuesKeeps == ASSUME Inv, NEW r \in Requests, Issues(r) PROVE Inv'
<1>1. /\ req[r].pc = "issue" /\ Ends(r) /\ UNCHANGED <<settings, shops, techs, server, load>>
      /\ tokens' = tokens \cup
           {[email |-> req[r].email, role |-> req[r].role, shop |-> req[r].shop]}
  BY DEF Issues, At
<1>2. [email |-> req[r].email, role |-> req[r].role, shop |-> req[r].shop] \in TokenRecs
  BY <1>1, Own DEF RequestOK, ReqRecs, TokenRecs
<1>. QED BY <1>1, <1>2, Own, EndStep

\* Two tables that only grow keep what the accounts and the shops are to each other.
LEMMA CommitsKeeps == ASSUME Inv, NEW r \in Requests, Commits(r) PROVE Inv'
<1>1. PICK q \in ReqRecs : q = req[r]
  BY Own
<1>. DEFINE a == Account(q.role, q.shop, q.open /\ (q.role = "org_admin" => q.free))
            n == [id |-> q.shop, by |-> q.email]
<1>2. /\ q.pc = "commit"
      /\ techs' = [techs EXCEPT ![q.email] = a]
      /\ shops' = IF q.role = "org_admin" THEN shops \cup {n} ELSE shops
      /\ UNCHANGED <<settings, tokens, server, load>>
  BY <1>1 DEF Commits, At
<1>3. /\ q.email \in Emails /\ q.open /\ ~Exists(q.email)
      /\ \/ q.role = "technician" /\ q.shop \in ShopIds
         \/ q.role = "org_admin" /\ q.shop \in Shops \ ShopIds /\ q.free
  BY <1>1, <1>2, Own DEF RequestOK
<1>4. /\ a \in TechRecs /\ a.role = q.role /\ a.shop = q.shop /\ a.allowed
  <2>1. (q.open /\ (q.role = "org_admin" => q.free)) = TRUE
    BY <1>3
  <2>2. q.role \in Roles /\ q.shop \in Shops \cup {None}
    BY <1>3 DEF ReqRecs, Roles
  <2>. QED BY <2>1, <2>2 DEF Account, TechRecs
<1>5. PICK p \in ReqRecs :
        /\ req' = [req EXCEPT ![r] = p]
        /\ p.pc \notin {"insert", "commit"} /\ RequestOK(p)
  <2>1. CASE Ends(r)
    BY <2>1, NoRequestIsIdle DEF Ends, RequestOK
  <2>2. CASE req' = [req EXCEPT ![r].pc = "issue"]
    <3>. DEFINE p == [q EXCEPT !.pc = "issue"]
    <3>1. "issue" \in PCs
      BY DEF PCs
    <3>2. p \in ReqRecs /\ p.pc = "issue" /\ p.email = q.email /\ p.role = q.role
      BY <3>1, PcMoves, Zenon
    <3>3. req' = [req EXCEPT ![r] = p]
      BY <2>2, <1>1
    <3>. HIDE DEF p
    <3>4. RequestOK(p)
      BY <1>3, <3>2 DEF RequestOK, Roles
    <3>. QED BY <3>2, <3>3, <3>4
  <2>. QED BY <2>1, <2>2 DEF Commits
<1>. HIDE DEF a
<1>6. /\ techs'[q.email] = a /\ techs' \in [Emails -> {None} \cup TechRecs]
      /\ \A e \in Emails : e # q.email => techs'[e] = techs[e]
  BY <1>2, <1>3, <1>4 DEF Inv, TypeOK
<1>7. /\ req' \in [Requests -> ReqRecs] /\ req'[r] = p
      /\ \A s \in Requests : s # r => req'[s] = req[s]
  BY <1>5 DEF Inv, TypeOK
<1>8. /\ shops \subseteq shops' /\ shops' \subseteq [id : Shops, by : Emails \cup {None}]
      /\ ShopIds' = IF q.role = "org_admin" THEN ShopIds \cup {q.shop} ELSE ShopIds
  <2>1. shops \subseteq [id : Shops, by : Emails \cup {None}]
    BY DEF Inv, TypeOK
  <2>2. CASE q.role = "org_admin"
    <3>1. shops' = shops \cup {n}
      BY <1>2, <2>2
    <3>2. n \in [id : Shops, by : Emails \cup {None}] /\ n.id = q.shop
      BY <1>3, <2>2
    <3>. HIDE DEF n
    <3>3. ShopIds' = ShopIds \cup {q.shop}
      BY <3>1, <3>2 DEF ShopIds
    <3>. QED BY <2>1, <2>2, <3>1, <3>2, <3>3
  <2>3. CASE q.role # "org_admin"
    BY <1>2, <2>1, <2>3 DEF ShopIds
  <2>. QED BY <2>2, <2>3
<1>9. TypeOK'
  <2>1. UNCHANGED <<settings, tokens, server, load>>
    BY <1>2
  <2>. QED BY <1>6, <1>7, <1>8, <2>1 DEF Inv, TypeOK
<1>10. ASSUME NEW e \in Emails PROVE TechOK(e)'
  <2>1. CASE e = q.email
    BY <1>2, <1>3, <1>4, <1>6, <1>8, <2>1 DEF TechOK, Exists
  <2>2. CASE e # q.email
    BY <1>6, <1>8, <2>2 DEF TechOK, Exists, Inv, AccountsInv
  <2>. QED BY <2>1, <2>2
<1>11. ASSUME NEW o \in shops' PROVE ShopOK(o)'
  <2>1. ASSUME NEW k \in shops PROVE /\ k.id \in ShopIds
                                     /\ k.by # q.email
                                     /\ ShopOK(k)
    BY <1>3 DEF ShopIds, ShopOK, Exists, Inv, AccountsInv
  <2>2. CASE o \in shops
    <3>1. o.by # None => /\ Exists(o.by)'
                         /\ techs'[o.by].role = "org_admin" /\ techs'[o.by].shop = o.id
      <4>1. o.by \in Emails \cup {None}
        BY <2>2 DEF Inv, TypeOK
      <4>. QED BY <1>6, <2>1, <2>2, <4>1 DEF ShopOK, Exists
    <3>2. \A k \in shops' : k.id = o.id => k = o
      BY <1>2, <1>3, <2>1, <2>2 DEF ShopOK
    <3>. QED BY <3>1, <3>2 DEF ShopOK
  <2>3. CASE o \notin shops
    <3>1. o = n /\ q.role = "org_admin" /\ q.shop \notin ShopIds
      BY <1>2, <1>3, <2>3
    <3>2. n.id = q.shop /\ n.by = q.email
      OBVIOUS
    <3>3. Exists(q.email)'
      BY <1>4, <1>6 DEF Exists
    <3>4. \A k \in shops' : k.id = q.shop => k = n
      BY <1>2, <2>1, <3>1
    <3>. QED BY <1>4, <1>6, <3>1, <3>2, <3>3, <3>4 DEF ShopOK
  <2>. QED BY <2>2, <2>3
<1>12. ASSUME NEW s \in Requests PROVE RequestOK(req[s])'
  <2>1. CASE s = r
    BY <1>2, <1>5, <1>7, <2>1 DEF RequestOK
  <2>2. CASE s # r
    <3>1. /\ RequestOK(req[s]) /\ Apart(q, req[s]) /\ req'[s] = req[s] /\ req[s] \in ReqRecs
      BY <1>1, <1>7, <2>2, Own
    <3>2. req[s].pc \in {"insert", "commit"} =>
            \/ req[s].role = "technician" /\ req[s].shop \in ShopIds'
            \/ req[s].role = "org_admin" /\ req[s].shop \in Shops \ ShopIds' /\ req[s].free
      BY <1>2, <1>8, <3>1 DEF RequestOK, Apart
    <3>3. req[s].pc = "commit" => ~Exists(req[s].email)'
      BY <1>2, <1>6, <3>1 DEF RequestOK, Apart, Exists
    <3>4. settings' = settings
      BY <1>2
    <3>. QED BY <3>1, <3>2, <3>3, <3>4 DEF RequestOK
  <2>. QED BY <2>1, <2>2
<1>13. ASSUME NEW s \in Requests, NEW t \in Requests, s # t PROVE Apart(req[s], req[t])'
  <2>1. CASE s # r /\ t # r
    BY <1>7, <1>13, <2>1 DEF Apart, Inv, AccountsInv
  <2>2. CASE s = r \/ t = r
    BY <1>5, <1>7, <2>2 DEF Apart
  <2>. QED BY <2>1, <2>2
<1>14. ASSUME NEW s \in Servers PROVE ServerOK(server[s])'
  <2>1. ServerOK(server[s]) /\ server' = server
    BY <1>2 DEF Inv, AccountsInv
  <2>2. Exists(Boss) => Exists(Boss)' /\ techs'[Boss] = techs[Boss]
    BY <1>3, <1>6 DEF Exists
  <2>3. server[s].died > 0 => (Boss \in SuperAdmins' <=> Boss \in SuperAdmins)
    BY <2>1, <2>2 DEF ServerOK, SuperAdmins
  <2>4. server[s].died > 1 => server[s].died > 0
    BY DEF Inv, TypeOK, ServerRecs
  <2>. QED BY <2>1, <2>2, <2>3, <2>4 DEF ServerOK
<1>15. AccountsInv'
  BY <1>10, <1>11, <1>12, <1>13, <1>14 DEF AccountsInv
<1>. QED BY <1>9, <1>15 DEF Inv
-----------------------------------------------------------------------------
(* Servers *)

\* A server changes, and no account that is there.
LEMMA ServerStep ==
  ASSUME Inv, NEW s \in Servers, NEW v \in ServerRecs, server' = [server EXCEPT ![s] = v],
         UNCHANGED <<settings, shops, techs, tokens, req>>, load' \in Loads,
         ServerOK(v)
  PROVE  Inv'
<1>1. /\ server' \in [Servers -> ServerRecs] /\ server'[s] = v
      /\ \A u \in Servers : u # s => server'[u] = server[u]
  BY DEF Inv, TypeOK
<1>2. TypeOK'
  BY <1>1 DEF Inv, TypeOK, Loads
<1>3. ShopIds' = ShopIds /\ settings' = settings /\ shops' = shops /\ techs' = techs
      /\ req' = req /\ SuperAdmins' = SuperAdmins /\ \A e : Exists(e)' <=> Exists(e)
  BY DEF ShopIds, SuperAdmins, Exists
<1>4. ASSUME NEW u \in Servers PROVE ServerOK(server[u])'
  <2>1. ServerOK(server'[u])
    BY <1>1 DEF Inv, AccountsInv
  <2>. QED BY <1>3, <2>1 DEF ServerOK
<1>5. /\ \A e \in Emails : TechOK(e)'
      /\ \A o \in shops' : ShopOK(o)'
  BY <1>3, Zenon DEF Inv, AccountsInv, TechOK, ShopOK
<1>6. ASSUME NEW q \in Requests PROVE RequestOK(req[q])'
  <2>1. RequestOK(req[q])
    BY DEF Inv, AccountsInv
  <2>. QED BY <1>3, <2>1, Zenon DEF RequestOK
<1>7. \A q, p \in Requests : q # p => Apart(req[q], req[p])'
  BY <1>3 DEF Inv, AccountsInv, Apart
<1>8. AccountsInv'
  BY <1>4, <1>5, <1>6, <1>7, Zenon DEF AccountsInv
<1>. QED BY <1>2, <1>8 DEF Inv

\* What Inv says of one server.
LEMMA OwnServer ==
  ASSUME Inv, NEW s \in Servers
  PROVE  server[s] \in ServerRecs /\ ServerOK(server[s]) /\ load \in Loads
  BY DEF Inv, TypeOK, AccountsInv, Loads

LEMMA StartsKeeps == ASSUME Inv, NEW s \in Servers, Starts(s) PROVE Inv'
<1>1. PICK v \in ServerRecs :
        /\ server' = [server EXCEPT ![s] = v]
        /\ v = [pc |-> "count", died |-> server[s].died] \/ v = [pc |-> "serve", died |-> 0]
  <2>1. /\ [pc |-> "count", died |-> server[s].died] \in ServerRecs
        /\ [pc |-> "serve", died |-> 0] \in ServerRecs
    BY OwnServer DEF ServerRecs
  <2>. QED BY <2>1 DEF Starts
<1>2. ServerOK(v)
  BY <1>1, OwnServer DEF ServerOK, ServerRecs
<1>3. load' \in Loads
  BY OwnServer DEF Starts, Loads
<1>. QED BY <1>1, <1>2, <1>3, ServerStep DEF Starts

LEMMA CountsKeeps == ASSUME Inv, NEW s \in Servers, Counts(s) PROVE Inv'
<1>1. PICK v \in ServerRecs :
        /\ server' = [server EXCEPT ![s] = v]
        /\ \/ v = [pc |-> "insert", died |-> server[s].died] /\ SuperAdmins = {}
           \/ v = [pc |-> "serve", died |-> 0]
  <2>1. /\ [pc |-> "insert", died |-> server[s].died] \in ServerRecs
        /\ [pc |-> "serve", died |-> 0] \in ServerRecs
    BY OwnServer DEF ServerRecs
  <2>. QED BY <2>1 DEF Counts
<1>2. ServerOK(v)
  BY <1>1, OwnServer DEF ServerOK, ServerRecs
<1>. QED BY <1>1, <1>2, OwnServer, ServerStep DEF Counts

\* The account of the super admin, made while nobody has his e-mail.
LEMMA BootstrapsKeeps == ASSUME Inv, NEW s \in Servers, Bootstraps(s) PROVE Inv'
<1>1. server[s].pc = "insert" /\ ~Held(Boss) /\ UNCHANGED <<settings, shops, tokens, req, load>>
  BY DEF Bootstraps
<1>2. CASE Exists(Boss)
  <2>. DEFINE v == [pc |-> "dead", died |-> server[s].died + 1]
  <2>1. server' = [server EXCEPT ![s] = v] /\ techs' = techs
    BY <1>2 DEF Bootstraps
  <2>2. v \in ServerRecs
    BY OwnServer DEF ServerRecs
  <2>3. ServerOK(v)
    <3>1. server[s].died \in Nat /\ ServerOK(server[s])
      BY OwnServer DEF ServerRecs
    <3>2. v.died > 1 => server[s].died > 0
      BY <3>1
    <3>. QED BY <1>1, <1>2, <3>1, <3>2 DEF ServerOK
  <2>. QED BY <1>1, <2>1, <2>2, <2>3, OwnServer, ServerStep
<1>3. CASE ~Exists(Boss)
  <2>. DEFINE a == Account("super_admin", None, TRUE)
              v == [pc |-> "serve", died |-> 0]
  <2>1. server' = [server EXCEPT ![s] = v] /\ techs' = [techs EXCEPT ![Boss] = a]
    BY <1>3 DEF Bootstraps
  <2>2. a \in TechRecs /\ a.role = "super_admin" /\ a.allowed
    BY DEF Account, TechRecs, Roles
  <2>3. v \in ServerRecs /\ v.died = 0 /\ v.pc = "serve"
    BY DEF ServerRecs
  <2>. HIDE DEF a, v
  <2>4. /\ techs' \in [Emails -> {None} \cup TechRecs] /\ techs'[Boss] = a
        /\ \A e \in Emails : e # Boss => techs'[e] = techs[e]
    BY <2>1, <2>2 DEF Inv, TypeOK
  <2>5. server' \in [Servers -> ServerRecs] /\ server'[s] = v
        /\ \A u \in Servers : u # s => server'[u] = server[u]
    BY <2>1, <2>3 DEF Inv, TypeOK
  <2>6. TypeOK'
    BY <1>1, <2>4, <2>5 DEF Inv, TypeOK
  <2>7. ShopIds' = ShopIds
    BY <1>1 DEF ShopIds
  <2>8. ASSUME NEW e \in Emails PROVE TechOK(e)'
    <3>1. CASE e = Boss
      BY <2>2, <2>4, <3>1 DEF TechOK
    <3>2. CASE e # Boss
      BY <1>1, <2>4, <2>7, <3>2 DEF TechOK, Exists, Inv, AccountsInv
    <3>. QED BY <3>1, <3>2
  <2>9. ASSUME NEW o \in shops' PROVE ShopOK(o)'
    <3>1. ShopOK(o) /\ o.by \in Emails \cup {None}
      BY <1>1 DEF Inv, TypeOK, AccountsInv
    <3>2. o.by # None => o.by \in Emails /\ o.by # Boss
      BY <1>3, <3>1 DEF ShopOK
    <3>. QED BY <1>1, <2>4, <3>1, <3>2 DEF ShopOK, Exists
  <2>10. ASSUME NEW q \in Requests PROVE RequestOK(req[q])'
    <3>1. RequestOK(req[q])
      BY DEF Inv, AccountsInv
    <3>2. req[q].pc = "commit" => req[q].email \in Emails /\ req[q].email # Boss
      BY <1>1, <3>1 DEF Held, At, RequestOK
    <3>3. req[q].pc = "commit" => ~Exists(req[q].email)'
      BY <1>1, <2>4, <3>1, <3>2 DEF RequestOK, Exists
    <3>4. settings' = settings /\ req' = req
      BY <1>1
    <3>. QED BY <2>7, <3>1, <3>3, <3>4 DEF RequestOK
  <2>11. \A q, p \in Requests : q # p => Apart(req[q], req[p])'
    BY <1>1 DEF Inv, AccountsInv, Apart
  <2>12. ASSUME NEW u \in Servers PROVE ServerOK(server[u])'
    <3>1. server'[u].died = 0
      <4>1. CASE u = s
        BY <2>3, <2>5, <4>1
      <4>2. CASE u # s
        <5>1. server[u].died \in Nat /\ ~(server[u].died > 0)
          BY <1>3, OwnServer DEF ServerOK, ServerRecs
        <5>. QED BY <2>5, <4>2, <5>1
      <4>. QED BY <4>1, <4>2
    <3>. QED BY <3>1 DEF ServerOK
  <2>13. AccountsInv'
    BY <2>8, <2>9, <2>10, <2>11, <2>12 DEF AccountsInv
  <2>. QED BY <2>6, <2>13 DEF Inv
<1>. QED BY <1>2, <1>3

\* A server that ends takes its requests with it.
LEMMA StopsKeeps == ASSUME Inv, NEW s \in Servers, Stops(s) PROVE Inv'
<1>. DEFINE v == [server[s] EXCEPT !.pc = "off"]
<1>1. /\ v \in ServerRecs /\ v.pc = "off" /\ v.died = server[s].died
      /\ server' = [server EXCEPT ![s] = v]
  BY OwnServer DEF ServerRecs, Stops
<1>. HIDE DEF v
<1>2. /\ server' \in [Servers -> ServerRecs] /\ server'[s] = v
      /\ \A u \in Servers : u # s => server'[u] = server[u]
  BY <1>1 DEF Inv, TypeOK
<1>3. /\ req' \in [Requests -> ReqRecs]
      /\ \A q \in Requests : req'[q] = NoRequest \/ req'[q] = req[q]
  BY NoRequestIsIdle DEF Stops, Inv, TypeOK
<1>4. UNCHANGED <<settings, shops, techs, tokens, load>>
  BY DEF Stops
<1>5. TypeOK'
  BY <1>2, <1>3, <1>4 DEF Inv, TypeOK
<1>6. ShopIds' = ShopIds /\ settings' = settings /\ shops' = shops /\ techs' = techs
      /\ SuperAdmins' = SuperAdmins /\ \A e : Exists(e)' <=> Exists(e)
  BY <1>4 DEF ShopIds, SuperAdmins, Exists
<1>7. ASSUME NEW u \in Servers PROVE ServerOK(server[u])'
  <2>1. ServerOK(server'[u])
    <3>1. CASE u = s
      BY <1>1, <1>2, <3>1, OwnServer DEF ServerOK
    <3>2. CASE u # s
      BY <1>2, <3>2, OwnServer
    <3>. QED BY <3>1, <3>2
  <2>. QED BY <1>6, <2>1 DEF ServerOK
<1>8. /\ \A e \in Emails : TechOK(e)'
      /\ \A o \in shops' : ShopOK(o)'
  BY <1>6, Zenon DEF Inv, AccountsInv, TechOK, ShopOK
<1>9. ASSUME NEW q \in Requests PROVE RequestOK(req[q])'
  <2>1. RequestOK(req'[q])
    BY <1>3, NoRequestIsIdle DEF Inv, AccountsInv, RequestOK
  <2>. QED BY <1>6, <2>1, Zenon DEF RequestOK
<1>10. ASSUME NEW q \in Requests, NEW p \in Requests, q # p PROVE Apart(req[q], req[p])'
  <2>1. Apart(req'[q], req'[p])
    BY <1>3, <1>10, NoRequestIsIdle, OutsideIsApart DEF Inv, AccountsInv
  <2>. QED BY <2>1 DEF Apart
<1>11. AccountsInv'
  BY <1>7, <1>8, <1>9, <1>10 DEF AccountsInv
<1>. QED BY <1>5, <1>11 DEF Inv
-----------------------------------------------------------------------------
(* The admin's requests *)

\* A request of an admin only counts down.
LEMMA AsksCounts == ASSUME Inv, NEW roles, Asks(roles) PROVE load' \in Loads
<1>1. load' = [load EXCEPT !.admin = @ - 1] /\ load.admin > 0
  BY DEF Asks
<1>. QED BY <1>1 DEF Inv, TypeOK, Loads

\* A setting changes; the requests under way have seen it.
LEMMA PatchesSettingKeeps == ASSUME Inv, PatchesSetting PROVE Inv'
<1>1. UNCHANGED <<shops, techs, tokens, server>> /\ load' \in Loads
  BY AsksCounts DEF PatchesSetting
<1>2. settings' \in [open : BOOLEAN, invite : BOOLEAN]
  <2>1. PICK key \in {"open", "invite"}, value \in BOOLEAN :
          settings' = [settings EXCEPT ![key] = value]
    BY DEF PatchesSetting
  <2>2. settings \in [open : BOOLEAN, invite : BOOLEAN]
    BY DEF Inv, TypeOK
  <2>3. CASE key = "open"
    <3>1. settings' = [settings EXCEPT !.open = value]
      BY <2>1, <2>3
    <3>. QED BY <2>2, <3>1
  <2>4. CASE key = "invite"
    <3>1. settings' = [settings EXCEPT !.invite = value]
      BY <2>1, <2>4
    <3>. QED BY <2>2, <3>1
  <2>. QED BY <2>3, <2>4
<1>3. ASSUME NEW r \in Requests
      PROVE  /\ req'[r] \in ReqRecs /\ req'[r].pc = req[r].pc
             /\ req'[r].email = req[r].email /\ req'[r].required = req[r].required
             /\ req'[r].shop = req[r].shop /\ req'[r].role = req[r].role
             /\ req'[r].open <=> req[r].open \/ (req[r].pc # "idle" /\ settings'.open)
             /\ req'[r].free <=> req[r].free \/ (req[r].pc # "idle" /\ ~settings'.invite)
  <2>1. PICK a \in BOOLEAN, b \in BOOLEAN :
          /\ a = (req[r].open \/ (~At(r, "idle") /\ settings'.open))
          /\ b = (req[r].free \/ (~At(r, "idle") /\ ~settings'.invite))
    OBVIOUS
  <2>2. PICK x \in ReqRecs : x = req[r]
    BY Own
  <2>. DEFINE p == [x EXCEPT !.open = a, !.free = b]
  <2>3. /\ p \in ReqRecs /\ p.pc = x.pc /\ p.email = x.email /\ p.required = x.required
        /\ p.shop = x.shop /\ p.role = x.role /\ p.open = a /\ p.free = b
    BY DEF ReqRecs
  <2>4. req'[r] = p
    BY <2>1, <2>2, Zenon DEF PatchesSetting
  <2>. HIDE DEF p
  <2>. QED BY <2>1, <2>2, <2>3, <2>4 DEF At
<1>4. req' \in [Requests -> ReqRecs]
  <2>1. req' = [r \in Requests |-> req'[r]]
    BY Zenon DEF PatchesSetting
  <2>. QED BY <1>3, <2>1
<1>5. TypeOK'
  BY <1>1, <1>2, <1>4 DEF Inv, TypeOK, Loads
<1>6. ShopIds' = ShopIds /\ shops' = shops /\ techs' = techs /\ server' = server
      /\ SuperAdmins' = SuperAdmins /\ \A e : Exists(e)' <=> Exists(e)
  BY <1>1 DEF ShopIds, SuperAdmins, Exists
<1>7. /\ \A e \in Emails : TechOK(e)'
      /\ \A o \in shops' : ShopOK(o)'
      /\ \A u \in Servers : ServerOK(server[u])'
  BY <1>6, Zenon DEF Inv, AccountsInv, TechOK, ShopOK, ServerOK
<1>8. ASSUME NEW r \in Requests PROVE RequestOK(req[r])'
  <2>1. RequestOK(req[r])
    BY Own
  <2>2. /\ req[r].open => req'[r].open
        /\ req[r].free => req'[r].free
        /\ req[r].pc = "allow" /\ settings'.open => req'[r].open
        /\ req[r].pc \in {"allow", "required"} => settings'.invite \/ req'[r].free
    BY <1>3
  <2>3. /\ req'[r].pc = req[r].pc /\ req'[r].email = req[r].email
        /\ req'[r].required = req[r].required
        /\ req'[r].shop = req[r].shop /\ req'[r].role = req[r].role
    BY <1>3
  <2>. QED BY <1>6, <2>1, <2>2, <2>3, ZenonT(30) DEF RequestOK
<1>9. ASSUME NEW q \in Requests, NEW p \in Requests, q # p PROVE Apart(req[q], req[p])'
  BY <1>3, <1>9 DEF Apart, Inv, AccountsInv
<1>10. AccountsInv'
  BY <1>7, <1>8, <1>9 DEF AccountsInv
<1>. QED BY <1>5, <1>10 DEF Inv

\* A shop of the super admin is a new one.
LEMMA CreatesShopKeeps == ASSUME Inv, CreatesShop PROVE Inv'
<1>1. PICK o \in Fresh : shops' = shops \cup {[id |-> o, by |-> None]}
  BY DEF CreatesShop
<1>. DEFINE n == [id |-> o, by |-> None]
<1>2. /\ o \in Shops /\ o \notin ShopIds /\ o \notin NewShops
      /\ n \in [id : Shops, by : Emails \cup {None}] /\ n.id = o /\ n.by = None
  BY <1>1 DEF Fresh
<1>3. shops' = shops \cup {n}
  BY <1>1
<1>. HIDE DEF n
<1>4. UNCHANGED <<settings, techs, tokens, server, req>> /\ load' \in Loads
  BY AsksCounts DEF CreatesShop
<1>5. ShopIds' = ShopIds \cup {o}
  BY <1>2, <1>3 DEF ShopIds
<1>6. TypeOK'
  BY <1>2, <1>3, <1>4 DEF Inv, TypeOK, Loads
<1>7. techs' = techs /\ server' = server /\ SuperAdmins' = SuperAdmins
      /\ \A e : Exists(e)' <=> Exists(e)
  BY <1>4 DEF SuperAdmins, Exists
<1>8. ASSUME NEW e \in Emails PROVE TechOK(e)'
  BY <1>3, <1>5, <1>7 DEF TechOK, Inv, AccountsInv
<1>9. ASSUME NEW p \in shops' PROVE ShopOK(p)'
  <2>1. \A k \in shops : k.id # o
    BY <1>2 DEF ShopIds
  <2>2. CASE p \in shops
    <3>1. ShopOK(p)
      BY <2>2 DEF Inv, AccountsInv
    <3>. QED BY <1>2, <1>3, <1>7, <2>1, <2>2, <3>1 DEF ShopOK
  <2>3. CASE p = n
    BY <1>2, <1>3, <2>1, <2>3 DEF ShopOK
  <2>. QED BY <1>3, <2>2, <2>3
<1>10. ASSUME NEW r \in Requests PROVE RequestOK(req[r])'
  <2>1. RequestOK(req[r]) /\ settings' = settings /\ req' = req
    BY <1>4, Own
  <2>2. req[r].role = "org_admin" => req[r].shop # o
    BY <1>2 DEF NewShops
  <2>3. req[r].pc \in {"insert", "commit"} =>
          \/ req[r].role = "technician" /\ req[r].shop \in ShopIds'
          \/ req[r].role = "org_admin" /\ req[r].shop \in Shops \ ShopIds' /\ req[r].free
    BY <1>5, <2>1, <2>2 DEF RequestOK
  <2>. QED BY <1>7, <2>1, <2>3, ZenonT(30) DEF RequestOK
<1>11. \A q, p \in Requests : q # p => Apart(req[q], req[p])'
  BY <1>4 DEF Inv, AccountsInv, Apart
<1>12. \A u \in Servers : ServerOK(server[u])'
  BY <1>7, Zenon DEF Inv, AccountsInv, ServerOK
<1>13. AccountsInv'
  BY <1>8, <1>9, <1>10, <1>11, <1>12 DEF AccountsInv
<1>. QED BY <1>6, <1>13 DEF Inv

\* Whether an account is active is of no concern to what is kept.
LEMMA SetsActiveKeeps == ASSUME Inv, SetsActive PROVE Inv'
<1>1. PICK e \in Emails, active \in BOOLEAN :
        techs[e] # None /\ techs' = [techs EXCEPT ![e] = [techs[e] EXCEPT !.active = active]]
  BY DEF SetsActive, Exists
<1>2. PICK x \in TechRecs : x = techs[e]
  BY <1>1 DEF Inv, TypeOK
<1>. DEFINE a == [x EXCEPT !.active = active]
<1>3. /\ a \in TechRecs /\ a.role = x.role /\ a.shop = x.shop /\ a.allowed = x.allowed
  BY DEF TechRecs
<1>4. techs' = [techs EXCEPT ![e] = a]
  BY <1>1, <1>2
<1>. HIDE DEF a
<1>5. /\ techs' \in [Emails -> {None} \cup TechRecs]
      /\ \A f \in Emails : techs[f] = None => techs'[f] = None
      /\ \A f \in Emails : techs[f] # None =>
           /\ techs'[f] # None
           /\ techs'[f].role = techs[f].role
           /\ techs'[f].shop = techs[f].shop
           /\ techs'[f].allowed = techs[f].allowed
  BY <1>1, <1>2, <1>3, <1>4 DEF Inv, TypeOK
<1>6. UNCHANGED <<settings, shops, tokens, server, req>> /\ load' \in Loads
  BY AsksCounts DEF SetsActive
<1>7. TypeOK'
  BY <1>5, <1>6 DEF Inv, TypeOK, Loads
<1>8. ShopIds' = ShopIds /\ (Boss \in SuperAdmins' <=> Boss \in SuperAdmins)
  <2>1. ShopIds' = ShopIds
    BY <1>6 DEF ShopIds
  <2>2. Boss \in SuperAdmins' <=> Boss \in SuperAdmins
    <3>1. Boss \in SuperAdmins <=> Exists(Boss) /\ techs[Boss].role = "super_admin"
      BY DEF SuperAdmins
    <3>2. Boss \in SuperAdmins' <=> Exists(Boss)' /\ techs'[Boss].role = "super_admin"
      BY DEF SuperAdmins
    <3>. QED BY <1>5, <3>1, <3>2 DEF Exists
  <2>. QED BY <2>1, <2>2
<1>9. ASSUME NEW f \in Emails PROVE TechOK(f)'
  <2>1. TechOK(f) /\ shops' = shops
    BY <1>6 DEF Inv, AccountsInv
  <2>2. CASE Exists(f)
    <3>1. /\ techs'[f].role = techs[f].role /\ techs'[f].shop = techs[f].shop
          /\ techs'[f].allowed = techs[f].allowed
      BY <1>5, <2>2 DEF Exists
    <3>. QED BY <1>8, <2>1, <2>2, <3>1 DEF TechOK
  <2>3. CASE ~Exists(f)
    BY <1>5, <2>3 DEF TechOK, Exists
  <2>. QED BY <2>2, <2>3
<1>10. ASSUME NEW o \in shops' PROVE ShopOK(o)'
  <2>1. ShopOK(o) /\ o.by \in Emails \cup {None}
    BY <1>6 DEF Inv, TypeOK, AccountsInv
  <2>. QED BY <1>5, <1>6, <2>1 DEF ShopOK, Exists
<1>11. ASSUME NEW r \in Requests PROVE RequestOK(req[r])'
  <2>1. RequestOK(req[r]) /\ settings' = settings /\ req' = req
    BY <1>6, Own
  <2>2. req[r].pc = "commit" => ~Exists(req[r].email)'
    <3>1. ASSUME req[r].pc = "commit" PROVE req[r].email \in Emails /\ ~Exists(req[r].email)
      BY <2>1, <3>1 DEF RequestOK
    <3>2. req'[r].email = req[r].email
      BY <2>1
    <3>. QED BY <1>5, <3>1, <3>2 DEF Exists
  <2>3. req[r].pc \in {"insert", "commit"} =>
          \/ req[r].role = "technician" /\ req[r].shop \in ShopIds'
          \/ req[r].role = "org_admin" /\ req[r].shop \in Shops \ ShopIds' /\ req[r].free
    BY <1>8, <2>1 DEF RequestOK
  <2>. QED BY <2>1, <2>2, <2>3, ZenonT(30) DEF RequestOK
<1>12. \A q, p \in Requests : q # p => Apart(req[q], req[p])'
  BY <1>6 DEF Inv, AccountsInv, Apart
<1>13. ASSUME NEW u \in Servers PROVE ServerOK(server[u])'
  BY <1>5, <1>6, <1>8, OwnServer DEF ServerOK, Exists
<1>14. AccountsInv'
  BY <1>9, <1>10, <1>11, <1>12, <1>13 DEF AccountsInv
<1>. QED BY <1>7, <1>14 DEF Inv

LEMMA InitOK == Init => Inv
<1>. SUFFICES ASSUME Init PROVE Inv
  OBVIOUS
<1>1. TypeOK
  <2>1. req \in [Requests -> ReqRecs]
    BY NoRequestIsIdle DEF Init
  <2>. QED BY <2>1 DEF Init, TypeOK, ServerRecs, TechRecs
<1>2. /\ \A e \in Emails : ~Exists(e)
      /\ \A r \in Requests : req[r] = NoRequest
      /\ \A s \in Servers : server[s].died = 0
      /\ shops = {}
  BY DEF Init, Exists
<1>3. \A e \in Emails : TechOK(e)
  BY <1>2 DEF TechOK
<1>4. \A r \in Requests : RequestOK(req[r])
  BY <1>2, NoRequestIsIdle DEF RequestOK
<1>5. \A r, s \in Requests : Apart(req[r], req[s])
  BY <1>2, NoRequestIsIdle, OutsideIsApart
<1>6. \A s \in Servers : ServerOK(server[s])
  BY <1>2 DEF ServerOK
<1>. QED BY <1>1, <1>2, <1>3, <1>4, <1>5, <1>6 DEF Inv, AccountsInv

LEMMA StepOK == Inv /\ [Next]_vars => Inv'
<1>. SUFFICES ASSUME Inv, [Next]_vars PROVE Inv'
  OBVIOUS
<1>1. CASE UNCHANGED vars
  <2>1. UNCHANGED <<settings, shops, techs, tokens, server, req, load>>
    BY <1>1 DEF vars
  <2>2. TypeOK'
    BY <2>1 DEF Inv, TypeOK
  <2>3. ShopIds' = ShopIds /\ SuperAdmins' = SuperAdmins /\ (\A e : Exists(e)' <=> Exists(e))
        /\ settings' = settings /\ shops' = shops /\ techs' = techs /\ req' = req
        /\ server' = server
    BY <2>1 DEF ShopIds, SuperAdmins, Exists
  <2>4. /\ \A e \in Emails : TechOK(e)'
        /\ \A o \in shops' : ShopOK(o)'
        /\ \A u \in Servers : ServerOK(server[u])'
    BY <2>3, Zenon DEF Inv, AccountsInv, TechOK, ShopOK, ServerOK
  <2>5. ASSUME NEW r \in Requests PROVE RequestOK(req[r])'
    <3>1. RequestOK(req[r])
      BY Own
    <3>. QED BY <2>3, <3>1, Zenon DEF RequestOK
  <2>6. \A q, p \in Requests : q # p => Apart(req[q], req[p])'
    BY <2>3 DEF Inv, AccountsInv, Apart
  <2>7. AccountsInv'
    BY <2>4, <2>5, <2>6 DEF AccountsInv
  <2>. QED BY <2>2, <2>7 DEF Inv
<1>2. ASSUME NEW s \in Servers, Starts(s) \/ Counts(s) \/ Bootstraps(s) \/ Stops(s)
      PROVE  Inv'
  BY <1>2, StartsKeeps, CountsKeeps, BootstrapsKeeps, StopsKeeps
<1>3. ASSUME NEW r \in Requests,
             \/ Registers(r) \/ ReadsAllow(r) \/ ReadsRequired(r) \/ FindsShop(r)
             \/ InsertsTech(r) \/ Commits(r) \/ Fails(r) \/ Authenticates(r) \/ Issues(r)
      PROVE  Inv'
  BY <1>3, RegistersKeeps, ReadsAllowKeeps, ReadsRequiredKeeps, FindsShopKeeps,
     InsertsTechKeeps, CommitsKeeps, FailsKeeps, AuthenticatesKeeps, IssuesKeeps
<1>4. CASE PatchesSetting \/ CreatesShop \/ SetsActive
  BY <1>4, PatchesSettingKeeps, CreatesShopKeeps, SetsActiveKeeps
<1>. QED BY <1>1, <1>2, <1>3, <1>4 DEF Next

LEMMA Invariance == Spec => []Inv
<1>1. Init => Inv
  BY InitOK
<1>2. Inv /\ [Next]_vars => Inv'
  BY StepOK
<1>. QED BY <1>1, <1>2, PTL DEF Spec
-----------------------------------------------------------------------------
(* The theorems *)

\* A shop has its founder as its only admin, and no account is without its shop, however
\* many registrations of RegisterTechnician met and wherever a server stopped.
THEOREM FoundersOwnTheirShops == Spec => []FounderOwnsShop
<1>1. ASSUME Inv PROVE FounderOwnsShop
  <2>. DEFINE admins(o) == { e \in Emails : Exists(e) /\ techs[e].role = "org_admin"
                                              /\ techs[e].shop = o }
  <2>1. ASSUME NEW o \in shops
        PROVE  admins(o.id) = IF o.by = None THEN {} ELSE {o.by}
    <3>1. ShopOK(o) /\ o.by \in Emails \cup {None}
      BY <1>1 DEF Inv, TypeOK, AccountsInv
    <3>2. ASSUME NEW e \in admins(o.id) PROVE e = o.by
      <4>1. [id |-> o.id, by |-> e] \in shops
        BY <1>1, <3>2 DEF Inv, AccountsInv, TechOK
      <4>2. [id |-> o.id, by |-> e] = o
        BY <3>1, <4>1 DEF ShopOK
      <4>3. [id |-> o.id, by |-> e].by = e
        OBVIOUS
      <4>. QED BY <4>2, <4>3
    <3>3. \A e \in admins(o.id) : e \in Emails
      OBVIOUS
    <3>4. CASE o.by = None
      BY <3>2, <3>3, <3>4
    <3>5. CASE o.by # None
      <4>1. o.by \in admins(o.id)
        BY <3>1, <3>5 DEF ShopOK
      <4>. HIDE DEF admins
      <4>. QED BY <3>2, <3>5, <4>1
    <3>. QED BY <3>4, <3>5
  <2>2. ASSUME NEW e \in Emails, Exists(e)
        PROVE  techs[e].role = "super_admin" \/ techs[e].shop \in ShopIds
    <3>1. TechOK(e) /\ techs[e] \in TechRecs
      BY <1>1, <2>2 DEF Inv, TypeOK, AccountsInv, Exists
    <3>2. techs[e].role \in Roles
      BY <3>1 DEF TechRecs
    <3>3. CASE techs[e].role = "org_admin"
      <4>1. [id |-> techs[e].shop, by |-> e] \in shops
        BY <2>2, <3>1, <3>3 DEF TechOK
      <4>2. [id |-> techs[e].shop, by |-> e].id = techs[e].shop
        OBVIOUS
      <4>. QED BY <4>1, <4>2, Zenon DEF ShopIds
    <3>4. CASE techs[e].role = "technician"
      BY <2>2, <3>1, <3>4 DEF TechOK
    <3>. QED BY <3>2, <3>3, <3>4 DEF Roles
  <2>. QED BY <2>1, <2>2 DEF FounderOwnsShop
<1>. QED BY <1>1, Invariance, PTL

\* A server that died of the super admin's e-mail comes up when it is started again,
\* unless the e-mail is that of an account that registered itself.
THEOREM RestartsHeal == Spec => []RestartHeals
<1>1. Inv => RestartHeals
  BY DEF Inv, AccountsInv, ServerOK, RestartHeals
<1>. QED BY <1>1, Invariance, PTL

\* Whoever is in technicians was let in by the settings of some time of his registration.
THEOREM RulesAreInForce == Spec => []RulesInForce
<1>1. Inv => RulesInForce
  BY DEF Inv, AccountsInv, TechOK, RulesInForce
<1>. QED BY <1>1, Invariance, PTL

\* The types of the accounts.
THEOREM AccountTypes == Spec => []TypeOK
<1>1. Inv => TypeOK
  BY DEF Inv
<1>. QED BY <1>1, Invariance, PTL
=============================================================================
