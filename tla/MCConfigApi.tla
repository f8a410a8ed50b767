----------------------------- MODULE MCConfigApi -----------------------------
(* Small instances of ConfigApi for TLC. *)
EXTENDS ConfigApi, TLC

CONSTANTS t1, t2, x, y

\* Two uploaded configurations: in one an id collides with nextDeviceId, which the
\* validator rejects; the other, a backup, brings back id 2 and its own nextDeviceId.
Invalid   == [net |-> "netA", next |-> 2, devs |-> (2 :> x)]
Backup    == [net |-> "netB", next |-> 3, devs |-> (2 :> x)]
MCImports == {Invalid, Backup}
===============================================================================
