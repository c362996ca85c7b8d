-------------------------- MODULE MCAdministration --------------------------
(***************************************************************************)
(* The registrations a server holds, for TLC: clients, resources, fronting *)
(* links and providers.  A behaviour is about one part, chosen at the      *)
(* start; the others stay as they are.  The parts share no state, so their *)
(* interleavings would show nothing more.                                  *)
(*                                                                         *)
(*   "clients"   ClientAdmin: four requests about one client               *)
(*   "registry"  ResourceAdmin: three administrators, three resources      *)
(*   "fetcher"   CimdFetcher: three calls for client ID documents          *)
(*   "documents" ClientRegistration: two documents and a patch             *)
(*   "mode"      a dynamic registration while the mode is changed twice    *)
(*   "modeDoc"   a document while the mode is changed twice                *)
(***************************************************************************)
EXTENDS ClientAdmin, ClientRegistration, ResourceAdmin

CONSTANTS p1, p2, p3, p4, u1, u2, u3, u4, c1, c2, c3, q1, a1, a2,
          r1, r2, r3, ia, ib, ix, a, b, c, x, v, kc, ru, s1, s2, pv, k1, k2

VARIABLE part

administrationVars == <<part, vars, crVars, rgVars>>

Registering == {"fetcher", "documents", "mode", "modeDoc"}

-----------------------------------------------------------------------------
\* Requests about a client are interchangeable: they are numbered by what they
\* ask for.
OpOrder ==
    <<"issue", "suspend", "reactivate", "revoke", "rotateSecret", "update", "delete",
      "forceDelete">>

Rank(o) == CHOOSE i \in DOMAIN OpOrder : OpOrder[i] = o

Numbered ==
    \A m \in {<<p1, p2>>, <<p1, p3>>, <<p1, p4>>, <<p2, p3>>, <<p2, p4>>, <<p3, p4>>} :
        ~ ("none" \notin {op'[m[1]], op'[m[2]]} /\ Rank(op'[m[1]]) > Rank(op'[m[2]]))

-----------------------------------------------------------------------------
\* Registrations: which grants, redirect URIs and method a client asks for.

Asks(grants, uris, method) == [grants |-> grants, uris |-> uris, method |-> method]

MCShapes ==
    {Asks({}, {"ok"}, ""),
     Asks({"authorization_code"}, {"ok", "other"}, "client_secret_basic"),
     Asks({"client_credentials"}, {}, "client_secret_basic"),
     Asks({"authorization_code"}, {"bad"}, "none"),
     Asks({"token-exchange"}, {}, "none")}

MCBodies ==
    {Asks({"authorization_code"}, {"ok"}, "none"),
     Asks({"authorization_code", "client_credentials"}, {"ok"}, "none"),
     Asks({"authorization_code", "password"}, {"other"}, "none")}

Callers ==
    CASE part = "documents" -> {c1, c2, a1}
      [] part = "mode"      -> {q1, a1, a2}
      [] part = "modeDoc"   -> {c1, a1, a2}
      [] OTHER              -> {}

\* The two documents are interchangeable: the first call asks first.  The mode
\* stays as it is beside them.
InOrder ==
    part = "documents" =>
        /\ ~ (crAt'[c1] = "idle" /\ crAt'[c2] # "idle")
        /\ dcrSaved' = "" /\ crAt'[a1] # "apply"

\* u2 and u3 are private, and only the second call may allow that; only the third
\* asks for u3, an address, or u4, beside two calls for different documents.
Fetches ==
    IF part = "fetcher"
    THEN {f \in [{c1, c2, c3} -> [url : {u1, u2, u3, u4}, https : BOOLEAN, allow : BOOLEAN]] :
             /\ \A n \in {c1, c2, c3} : f[n].https => n = c1 /\ f[n].url = u2
             /\ {f[c1].url, f[c2].url} \subseteq {u1, u2}
             /\ ~ f[c1].allow /\ ~ f[c3].allow /\ f[c3].url # u2
             /\ ~ f[c2].allow => f[c1].url = u1 \/ f[c2].url = u2
             /\ f[c3].url # u1 => f[c1].url = u1 /\ f[c2] = [url |-> u2, https |-> FALSE, allow |-> TRUE]}
    ELSE {[n \in {c1, c2, c3} |-> [url |-> u1, https |-> FALSE, allow |-> FALSE]]}

-----------------------------------------------------------------------------
\* The registry: mint resources ia and ib, of which ia fronts ib, and a broker
\* resource ix; v is another spelling of the slug c.

MCMap(from, to) == [s \in {s1, s2} |-> IF s = from THEN {to} ELSE {}]

MCRow(slug, kind, prov, scopes, urls) ==
    [slug |-> slug, kind |-> kind, provider |-> prov, scopes |-> scopes,
     allowed |-> {}, runtime |-> {}, returns |-> urls]

MCSeedTable ==
    (ia :> MCRow(a, "mint", RgNone, {s1, s2}, {})) @@ (ib :> MCRow(b, "mint", RgNone, {s1}, {}))
    @@ (ix :> MCRow(x, "broker", pv, {s1}, {ru}))

MCSeedLinks ==
    [l \in {a, b, c, x} \X {a, b, c, x} |-> IF l = <<a, b>> THEN MCMap(s1, s1) ELSE RgNone]

MCSeedProviderTable == pv :> [slug |-> a, protocol |-> "oauth", ref |-> RgNone, enc |-> k1]

MCRgOps ==
    (r1 :> {"createLink", "patchResource", "addClient", "patchProvider"})
    @@ (r2 :> {"createLink", "patchResource", "cascade", "deleteResource", "addRuntime",
               "removeURL", "patchProvider", "deleteProvider", "createResource"})
    @@ (r3 :> {"createLink", "patchLink", "deleteLink", "createResource", "removeClient",
               "removeRuntime", "createProvider", "addURL"})

MCLinkInputs ==
    {<<a, b, MCMap(s2, s1)>>, <<b, a, MCMap(s1, s2)>>, <<b, x, MCMap(s1, s1)>>,
     <<b, c, MCMap(s1, s1)>>, <<c, a, MCMap(s1, s1)>>}

MCCanonical == a :> a @@ b :> b @@ c :> c @@ x :> x @@ v :> c

MCNewResources == {MCRow(v, "mint", RgNone, {s1}, {ru}), MCRow(c, "broker", pv, {s1}, {})}

MCResPatches ==
    {"scopes" :> {}, ("kind" :> "mint") @@ ("provider" :> RgNone),
     ("kind" :> "broker") @@ ("provider" :> pv), "slug" :> v,
     ("allowed" :> {kc}) @@ ("runtime" :> {}) @@ ("returns" :> {})}

MCProviderInputs ==
    {[slug |-> x, protocol |-> "oauth", ref |-> RgNone, value |-> k2],
     [slug |-> a, protocol |-> "api_key", ref |-> k1, value |-> RgNone]}

MCProviderPatches ==
    {"ref" :> k2, "value" :> k2, "ref" :> RgNone, "protocol" :> "api_key", "slug" :> x}

-----------------------------------------------------------------------------
AdministrationInit ==
    /\ part \in {"clients", "registry"} \cup Registering
    /\ Init /\ FtInit /\ CrInit(Callers) /\ RegInit
    /\ ftIn \in Fetches

AdministrationNext ==
    /\ UNCHANGED part
    /\ \/ part = "clients" /\ Next /\ Numbered /\ UNCHANGED <<crVars, rgVars>>
       \/ part = "registry" /\ RegNext /\ UNCHANGED <<vars, crVars>>
       \/ part = "fetcher" /\ FtNext /\ UNCHANGED <<vars, regVars, rgVars>>
       \/ part \in Registering \ {"fetcher"} /\ CrNext /\ InOrder /\ UNCHANGED <<vars, rgVars>>

AdministrationSpec == AdministrationInit /\ [][AdministrationNext]_administrationVars
=============================================================================
