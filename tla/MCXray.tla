------------------------------- MODULE MCXray -------------------------------
(* One user.  The requests give it every inbound, or another credential    *)
(* and one inbound fewer.                                                  *)
EXTENDS Xray

MCProtocol == [i \in Tag |-> IF i = "ss" THEN "shadowsocks" ELSE "vmess"]
MCUser(tags, cred) ==
  [email |-> "e1", inbounds |-> tags, proxies |-> {Protocol[i] : i \in Tag}, cred |-> cred]

MCRequest == {<<MCUser(Tag, 1)>>, <<MCUser({"vm"}, 2)>>}
=============================================================================
