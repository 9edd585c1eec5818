---------------------------- MODULE MCHciController ----------------------------
(* HciController with a few commands of each kind and small attribute tables. *)
EXTENDS HciController

Value(uuid, handle) == Attribute(uuid, handle, TRUE, uuid)
Cccd(of, handle) == Attribute("cccd", handle, TRUE, of)
Short(handle) == Attribute("short", handle, FALSE, "service")
Gap == Attribute("short", 0, FALSE, "none")

\* TX before RX, each with a declaration, TX with a subscription of its own.
Uart == <<Short(1), Short(2), Value("tx", 3), Cccd("tx", 4), Short(5), Value("rx", 6)>>

\* The first RX value cannot be written, TX cannot be subscribed to, and the
\* subscription behind it belongs to another characteristic.
NoTxCccd == <<Attribute("rx", 1, FALSE, "rx"), Value("rx", 2), Value("tx", 4), Gap,
              Value("other", 6), Cccd("other", 7)>>

TheTables == {Uart, NoTxCccd}
=============================================================================
