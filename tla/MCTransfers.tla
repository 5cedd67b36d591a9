---------------------------- MODULE MCTransfers ----------------------------
(***************************************************************************)
(* Instances of Transfers.  The payloads of the stream include one that is *)
(* a frame itself; 52 bytes stand for the 64 MiB of maxFrameSize.  The     *)
(* payloads of other daemons put options the code does not know before     *)
(* IPv4 endpoints, use both runs, and lead beyond the options.             *)
(***************************************************************************)
EXTENDS Transfers

Msg(session, payload) ==
    [service |-> 4660, method |-> 33025, client |-> 65535, session |-> session,
     iface |-> 255, type |-> 129, code |-> 9, payload |-> payload]

Tiny == Msg(256, <<>>)

MCMessages == {Tiny, Msg(1, <<0, 0, 0, 8>>), Msg(65535, Encode(Msg(7, <<1>>))),
               Msg(2, [i \in 1..36 |-> i])}

\* A Length below 8, one beyond the limit, and protocol version 2.
MCGarbage == {[Encode(Tiny) EXCEPT ![8] = 7], [Encode(Tiny) EXCEPT ![7] = 1],
              [Encode(Tiny) EXCEPT ![13] = 2]}

EntryOf(type, ttl) ==
    [NoEntry EXCEPT !.type = type, !.service = 4660, !.instance = 65534, !.major = 255, !.ttl = ttl]

A == [ip |-> <<10, 0, 0, 1>>, proto |-> 6, port |-> 30509]
B == [ip |-> <<192, 168, 255, 2>>, proto |-> 17, port |-> 255]
Nowhere == [A EXCEPT !.ip = None]

Cfg(e, ep) == [entry |-> e, endpoint |-> ep, optType |-> OptionTypeIPv4Endpoint]

MCConfigs ==
    {Cfg([EntryOf(Offer, ttl) EXCEPT !.minor = minor], ep) :
        ttl \in {1, 65536, 16777215}, minor \in {0, 16909060}, ep \in {A, Nowhere}}
    \cup {Cfg([EntryOf(Offer, 3) EXCEPT !.index1 = 9, !.num1 = 17, !.num2 = 16], B)}

MCGroups == {[EntryOf(Subscribe, ttl) EXCEPT !.group = g] : ttl \in {0, 5}, g \in {1, 32769}}

MCEvents == [type : {Subscribe, SubscribeAck}, service : {4660}, instance : {1, 65535},
             event : {1, 32769}, ttl : {0, 16777215}]

Options == <<0, 4, 1, 0, 7, 7, 7>> \o EncodeIPv4Option(4, A) \o EncodeIPv4Option(4, B)
Array(b) == PutUint32(Len(b)) \o b
Runs(i1, n1, i2, n2) ==
    [EntryOf(Offer, 3) EXCEPT !.index1 = i1, !.num1 = n1, !.index2 = i2, !.num2 = n2]
Is(e, ep) == [entry |-> Core(e), at |-> ep]
Unknown == [EntryOf(Offer, 3) EXCEPT !.type = 2]

MCForeign ==
    {[payload |-> Zeros(4) \o Array(EncodeEntry(Runs(1, 1, 0, 0)) \o EncodeEntry(Runs(0, 1, 1, 2))
                                    \o EncodeEntry(Runs(0, 0, 2, 1)) \o EncodeEntry(Runs(2, 2, 0, 0)))
                           \o Array(Options),
      means   |-> <<Is(Runs(1, 1, 0, 0), A), Is(Runs(0, 1, 1, 2), A),
                    Is(Runs(0, 0, 2, 1), B), Is(Runs(2, 2, 0, 0), None)>>],
     [payload |-> Zeros(4) \o Array(EncodeEntry(Runs(0, 2, 0, 0)) \o EncodeEntry(Unknown)
                                    \o EncodeEntry(Runs(1, 1, 0, 0))) \o Array(Options),
      means   |-> <<Is(Runs(0, 2, 0, 0), A)>>],
     [payload |-> Zeros(4) \o Array(EncodeEntry(EntryOf(Find, 3)) \o <<1, 2, 3>>) \o Array(<<>>),
      means   |-> <<Is(EntryOf(Find, 3), None)>>],
     [payload |-> Zeros(4) \o Array(EncodeEntry(EntryOf(Subscribe, 3))) \o Array(<<0, 9, 4, 0>>),
      means   |-> <<>>],
     [payload |-> Zeros(4) \o PutUint32(32) \o EncodeEntry(Runs(0, 0, 0, 0)) \o Array(<<>>),
      means   |-> <<>>],
     [payload |-> Zeros(7), means |-> <<>>]}

MCProtected ==
    {[profile |-> 1, id |-> <<E!Bits(52), E!Bits(18)>>, payload |-> p, counter |-> c] :
        p \in {<<>>, <<E!Bits(165)>>}, c \in {0, 14, 15}}
    \cup {[profile |-> 5, id |-> <<E!Bits(66)>>, payload |-> p, counter |-> c] :
        p \in {<<>>, <<E!Bits(129)>>}, c \in {255}}

MCDataIDs == {<<E!Bits(52), E!Bits(18)>>, <<E!Bits(53), E!Bits(18)>>, <<E!Bits(52), E!Bits(50)>>,
              <<E!Bits(66)>>, <<E!Bits(67)>>}

MCMaxFlips == <<2, 0, 0, 0, 2>>
=============================================================================
