------------------------------- MODULE MCEncoding -------------------------------
EXTENDS Encoding

(* NodeID unset, the upper-case hex of key 2, and an opaque one. *)
Authors == [id : {<<>>, <<2, 0>>, <<3, 3>>}, priv : {<<0>>, <<2>>}, maxBytes : {0, 1}]
Gates == [maxBytes : {1, 2}, skew : {0, 1}, now : {0}, binding : BOOLEAN, trusts : BOOLEAN]
Topics == {<<0>>, <<1, 3>>}
Keys == {<<>>, <<0>>, <<3>>, <<0, 1, 2>>, <<0, 0, 0, 0>>}
Stamps == 0 .. 3

Publications ==
  [op : {"publish"}, author : Authors, gate : Gates, topic : Topics, key : Keys, hlc : Stamps,
   body : {<<>>, <<0>>, <<1, 1>>, <<0, 0, 0>>}]
Tombstones ==
  [op : {"tombstone"}, author : Authors, gate : Gates, topic : Topics, key : Keys, hlc : Stamps]
Attestations ==
  [op : {"observe"}, author : Authors, gate : Gates, topic : Topics, hlc : Stamps,
   target : {<<>>, <<0, 0>>, <<1, 0>>, <<2, 0>>}]
Blobs ==
  [op : {"manifest"}, body : UNION {[1 .. n -> 0 .. 2] : n \in 0 .. 5}, size : 0 .. 3,
   filename : {<<>>, <<0>>, <<1, 2, 3>>}]

Tenants == {<<"t">>, <<"t", "u">>, <<"u">>}
Names ==
  [op : {"topic"}, helper : DOMAIN TenantTopic, tenant : Tenants, arg : {<<>>}]
    \cup [op : {"topic"}, helper : DOMAIN QualifiedTopic, tenant : Tenants,
          arg : {<<>>, <<"q">>, <<"u", ".", "q">>}]
    \cup [op : {"topic"}, helper : {"AgentNetworkPSKTopic"}, tenant : Tenants,
          arg : {0, 7, 10, 105}]

AllJobs == Publications \cup Tombstones \cup Attestations \cup Blobs \cup Names
===============================================================================
