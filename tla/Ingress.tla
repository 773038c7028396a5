------------------------------- MODULE Ingress -------------------------------
(***************************************************************************)
(* What comes in from outside: deliveries of chat platforms (ChatIngress), *)
(* requests over HTTP (HttpIngress), the key and token caches that verify  *)
(* both (KeyCaches), the limits both pass (RateLimits), and what platforms *)
(* deliver again (Redelivery).  The gates of the first two take the        *)
(* verdict of the others as given, so a behaviour is about one side, and   *)
(* the others rest in one state.                                           *)
(***************************************************************************)
EXTENDS ChatIngress, HttpIngress, KeyCaches, RateLimits, Redelivery

CONSTANT Sides

VARIABLE side

ingressVars == <<side, chatVars, httpVars, kcVars, vars, rdVars>>

IngressInit ==
    /\ side \in Sides /\ ChatInit /\ HttpInit /\ KcInit /\ Init /\ RdInit
    /\ side # "chat" => channel = "email"
    /\ side # "keys" => style = "oidc"
    /\ side # "limits" => limiter = "window"
    /\ side # "platform" => platform = "poll" /\ sort = [m \in All |-> "text"]

ChatStep == side = "chat" /\ ChatNext /\ UNCHANGED <<side, httpVars, kcVars, vars, rdVars>>
HttpStep == side = "http" /\ HttpNext /\ UNCHANGED <<side, chatVars, kcVars, vars, rdVars>>
KeysStep == side = "keys" /\ KcNext /\ UNCHANGED <<side, chatVars, httpVars, vars, rdVars>>
LimitsStep == side = "limits" /\ Next /\ UNCHANGED <<side, chatVars, httpVars, kcVars, rdVars>>
PlatformStep == side = "platform" /\ RdNext /\ UNCHANGED <<side, chatVars, httpVars, kcVars, vars>>

IngressNext == ChatStep \/ HttpStep \/ KeysStep \/ LimitsStep \/ PlatformStep

IngressSpec == IngressInit /\ [][IngressNext]_ingressVars
=============================================================================
