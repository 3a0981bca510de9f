--------------------------- MODULE MC_ReapiClient ---------------------------
(***************************************************************************)
(* The REAPI client's setup on its own: every kind of address and CAS     *)
(* address, a bare instance, one under a project and none, a project ID   *)
(* or none, and servers with and without a blob compressor.              *)
(***************************************************************************)
EXTENDS ReapiClient

MCAddrs == {"none", "rbe", "googleapis", "plain"}
MCInstances == {EmptyInst, Inst("none", "i"), Inst("p", "i")}
====
