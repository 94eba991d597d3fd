------------------------------ MODULE MCGateway ------------------------------
(***************************************************************************)
(* A small instance of Gateway for TLC.  Scope a: two upstreams, a         *)
(* service, a route, a consumer.  Both scopes: plugin metadata, whose id   *)
(* carries no scope.  Neither: a resource of the dynamic registry.         *)
(***************************************************************************)
EXTENDS Gateway, TLC

CONSTANTS a, b, u1, u2, svc, route, consumer, meta, dyn

MCScopes == {a, b}
MCIds == {u1, u2, svc, route, consumer, meta, dyn}
MCConsumers == {consumer}
MCForeign == {dyn}
MCBodies == 1..2

MCOrder ==
    [r \in MCIds |->
        CASE r \in {u1, u2} -> 10
          [] r = meta -> 15
          [] r = svc -> 30
          [] r = consumer -> 40
          [] r \in {route, dyn} -> 60]

Res(refs, body) == [refs |-> refs, body |-> body]

MCManifests ==
    (a :> { (u1 :> Res({}, 1)) @@ (svc :> Res({}, 1)) @@ (route :> Res({u1, svc}, 1))
                @@ (consumer :> Res({}, 1)),
            (u2 :> Res({}, 1)) @@ (svc :> Res({}, 1)) @@ (route :> Res({u2, svc}, 1))
                @@ (meta :> Res({}, 1)) })
    @@
    (b :> { meta :> Res({}, 2) })

=============================================================================
