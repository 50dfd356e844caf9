------------------------------ MODULE MCMqMgr ------------------------------
(* Instances of MqMgr: the URLs of two brokers and the symmetry.           *)
EXTENDS MqMgr, TLC

QueueUrl == <<"mq", "s1", "queue", "a">>
TopicUrl == <<"mq", "s1", "topic", "a">>
OtherUrl == <<"mq", "s2", "queue", "a">>
BadUrl   == <<"mq", "s1", "fanout", "a">>

OneUrl     == {QueueUrl}
OneBroker  == {QueueUrl, TopicUrl, BadUrl}
TwoBrokers == {QueueUrl, OtherUrl}

Symmetry == Permutations(Thread) \cup Permutations(Prod)
=============================================================================
