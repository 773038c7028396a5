----------------------------- MODULE MCDelivery -----------------------------
(* Every adapter with a long-lived task, each on its own small instance.   *)
EXTENDS Delivery

CONSTANTS u1, u2, u3, t1, t2

ThreeUsers == {u1, u2, u3}
TwoTenants == {t1, t2}
AllAdapters == {"teams", "googlechat", "signal", "discord", "telegram", "a2a", "process"}

Deploy(prod, ports, sockets, webhooks, optional, signer, raster) ==
    [prod |-> prod, ports |-> ports, sockets |-> sockets, webhooks |-> webhooks,
     optional |-> optional, signer |-> signer, raster |-> raster]
ThreeDeployments ==
    {Deploy(TRUE, {"rest"}, {"signal", "gateway"}, {"msteams", "google_chat", "email"}, FALSE, TRUE, "service"),
     Deploy(TRUE, {"rest", "mcp", "a2a"}, {"bridge"}, {"whatsapp", "twilio", "rcs"}, TRUE, FALSE, "none"),
     Deploy(FALSE, {"rest", "metrics", "chat"}, {"poll"}, {"telegram", "discord"}, TRUE, FALSE, "tool")}

SignalOnly == {"signal"}
=============================================================================
