------------------------------ MODULE Methods ------------------------------
(***************************************************************************)
(* The methods of AMQP 0-9-1 (amqp/spec091.go): one record per Go type     *)
(* that implements `message`, with what id() returns and the arguments in  *)
(* the order in which write() and read() go through them. The two go       *)
(* through the same arguments for each of the 62 types. "bits3" is an      *)
(* octet that holds three flags, the first in the lowest bit; the other    *)
(* names are the functions of write.go and read.go, or the widths of the   *)
(* integers given to encoding/binary.                                      *)
(***************************************************************************)

Method(class, method, args) ==
  [class |-> class, method |-> method, args |-> args]

\* class connection
connectionStart     == Method(10, 10,
                        <<"octet", "octet", "table", "longstr", "longstr">>)
connectionStartOk   == Method(10, 11,
                        <<"table", "shortstr", "longstr", "shortstr">>)
connectionSecure    == Method(10, 20, <<"longstr">>)
connectionSecureOk  == Method(10, 21, <<"longstr">>)
connectionTune      == Method(10, 30, <<"short", "long", "short">>)
connectionTuneOk    == Method(10, 31, <<"short", "long", "short">>)
connectionOpen      == Method(10, 40, <<"shortstr", "shortstr", "bits1">>)
connectionOpenOk    == Method(10, 41, <<"shortstr">>)
connectionClose     == Method(10, 50,
                        <<"short", "shortstr", "short", "short">>)
connectionCloseOk   == Method(10, 51, <<>>)
connectionBlocked   == Method(10, 60, <<"shortstr">>)
connectionUnblocked == Method(10, 61, <<>>)

\* class channel
channelOpen         == Method(20, 10, <<"shortstr">>)
channelOpenOk       == Method(20, 11, <<"longstr">>)
channelFlow         == Method(20, 20, <<"bits1">>)
channelFlowOk       == Method(20, 21, <<"bits1">>)
channelClose        == Method(20, 40,
                        <<"short", "shortstr", "short", "short">>)
channelCloseOk      == Method(20, 41, <<>>)

\* class exchange
exchangeDeclare     == Method(40, 10,
                        <<"short", "shortstr", "shortstr", "bits5", "table">>)
exchangeDeclareOk   == Method(40, 11, <<>>)
exchangeDelete      == Method(40, 20, <<"short", "shortstr", "bits2">>)
exchangeDeleteOk    == Method(40, 21, <<>>)
exchangeBind        == Method(40, 30,
                        <<"short", "shortstr", "shortstr", "shortstr", "bits1", "table">>)
exchangeBindOk      == Method(40, 31, <<>>)
exchangeUnbind      == Method(40, 40,
                        <<"short", "shortstr", "shortstr", "shortstr", "bits1", "table">>)
exchangeUnbindOk    == Method(40, 51, <<>>)

\* class queue
queueDeclare        == Method(50, 10,
                        <<"short", "shortstr", "bits5", "table">>)
queueDeclareOk      == Method(50, 11, <<"shortstr", "long", "long">>)
queueBind           == Method(50, 20,
                        <<"short", "shortstr", "shortstr", "shortstr", "bits1", "table">>)
queueBindOk         == Method(50, 21, <<>>)
queueUnbind         == Method(50, 50,
                        <<"short", "shortstr", "shortstr", "shortstr", "table">>)
queueUnbindOk       == Method(50, 51, <<>>)
queuePurge          == Method(50, 30, <<"short", "shortstr", "bits1">>)
queuePurgeOk        == Method(50, 31, <<"long">>)
queueDelete         == Method(50, 40, <<"short", "shortstr", "bits3">>)
queueDeleteOk       == Method(50, 41, <<"long">>)

\* class basic
basicQos            == Method(60, 10, <<"long", "short", "bits1">>)
basicQosOk          == Method(60, 11, <<>>)
basicConsume        == Method(60, 20,
                        <<"short", "shortstr", "shortstr", "bits4", "table">>)
basicConsumeOk      == Method(60, 21, <<"shortstr">>)
basicCancel         == Method(60, 30, <<"shortstr", "bits1">>)
basicCancelOk       == Method(60, 31, <<"shortstr">>)
basicPublish        == Method(60, 40,
                        <<"short", "shortstr", "shortstr", "bits2">>)
basicReturn         == Method(60, 50,
                        <<"short", "shortstr", "shortstr", "shortstr">>)
basicDeliver        == Method(60, 60,
                        <<"shortstr", "longlong", "bits1", "shortstr", "shortstr">>)
basicGet            == Method(60, 70, <<"short", "shortstr", "bits1">>)
basicGetOk          == Method(60, 71,
                        <<"longlong", "bits1", "shortstr", "shortstr", "long">>)
basicGetEmpty       == Method(60, 72, <<"shortstr">>)
basicAck            == Method(60, 80, <<"longlong", "bits1">>)
basicReject         == Method(60, 90, <<"longlong", "bits1">>)
basicRecoverAsync   == Method(60, 100, <<"bits1">>)
basicRecover        == Method(60, 110, <<"bits1">>)
basicRecoverOk      == Method(60, 111, <<>>)
basicNack           == Method(60, 120, <<"longlong", "bits2">>)

\* class tx
txSelect            == Method(90, 10, <<>>)
txSelectOk          == Method(90, 11, <<>>)
txCommit            == Method(90, 20, <<>>)
txCommitOk          == Method(90, 21, <<>>)
txRollback          == Method(90, 30, <<>>)
txRollbackOk        == Method(90, 31, <<>>)

\* class confirm
confirmSelect       == Method(85, 10, <<"bits1">>)
confirmSelectOk     == Method(85, 11, <<>>)

Methods ==
  { connectionStart, connectionStartOk, connectionSecure,
    connectionSecureOk, connectionTune, connectionTuneOk, connectionOpen,
    connectionOpenOk, connectionClose, connectionCloseOk, connectionBlocked,
    connectionUnblocked, channelOpen, channelOpenOk, channelFlow,
    channelFlowOk, channelClose, channelCloseOk, exchangeDeclare,
    exchangeDeclareOk, exchangeDelete, exchangeDeleteOk, exchangeBind,
    exchangeBindOk, exchangeUnbind, exchangeUnbindOk, queueDeclare,
    queueDeclareOk, queueBind, queueBindOk, queueUnbind, queueUnbindOk,
    queuePurge, queuePurgeOk, queueDelete, queueDeleteOk, basicQos,
    basicQosOk, basicConsume, basicConsumeOk, basicCancel, basicCancelOk,
    basicPublish, basicReturn, basicDeliver, basicGet, basicGetOk,
    basicGetEmpty, basicAck, basicReject, basicRecoverAsync, basicRecover,
    basicRecoverOk, basicNack, txSelect, txSelectOk, txCommit, txCommitOk,
    txRollback, txRollbackOk, confirmSelect, confirmSelectOk }
============================================================================
