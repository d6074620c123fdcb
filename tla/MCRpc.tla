------------------------------- MODULE MCRpc -------------------------------
\* Small instances of the RPC framework.
EXTENDS RpcProps

CONSTANTS t1, t2, t3, ch1, ch2

OwnChannel == t1 :> ch1 @@ t2 :> ch2
OneChannel == t1 :> ch1 @@ t2 :> ch1
Shared     == t1 :> ch1 @@ t2 :> ch1 @@ t3 :> ch2
SomeMethods ==
    t1 :> <<{"RequestVote"}, {}>> @@
    t2 :> <<{}, {"InstallSnapshot"}>> @@
    t3 :> <<{"GetFriendsList"}, {"GetFriendsList"}>>
AllMethods  ==
    t1 :> <<{"AppendEntries", "RequestVote"}, {"InstallSnapshot"}>> @@
    t2 :> <<{"PutAppend", "GetFriendsList"}, {"Get", "GetFriendsList"}>>
RaftMethods == [t \in Thread |-> <<DOMAIN raftRpc, DOMAIN raftRpc>>]
AllServices == <<"kvServerRpc", "raftRpc", "FiendServiceRpc">>
SomeServices == <<"raftRpc", "FiendServiceRpc">>
=============================================================================
