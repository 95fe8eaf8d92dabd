--------------------------- MODULE DialoguePrograms ---------------------------
(***************************************************************************)
(* The sequential programs as the sequences of their calls, and who talks  *)
(* to whom.  socket, bind and listen are one call, and so are socket and   *)
(* connect.  Sizes are in units: a message of an echo client has two, a    *)
(* buffer holds more; what a program prints, computes or stores is left    *)
(* out.                                                                    *)
(***************************************************************************)
EXTENDS Integers, Sequences, FiniteSets

Call(name, n) == [call |-> name, size |-> n, error |-> "ignored"]

\* What the program makes of a -1: "ignored" (on to the next call), "skips" the next,
\* "ends" (the program), "retried" (the loop reads on), or the -1 is used as a length:
\* "summed", "unsigned" (a sum that is compared unsigned) and "undefined".
OnError(what, call) == [call EXCEPT !.error = what]

Listening  == Call("listen", 0)
Connecting == Call("connect", 0)
Accepting  == Call("accept", 0)
Again      == Call("again", 0)       \* the for loop over five clients
Prompting  == Call("prompt", 0)      \* a message from the user, or q
Writing(n)    == Call("write", n)
Reading(n)    == Call("read", n)     \* one call
ReadingAll(n) == Call("readAll", n)  \* a loop until n units have come
ReadingEof(n) == Call("readEof", n)  \* a loop until read returns 0
Peeking       == Call("peek", 0)
Echoing(n)    == Call("echo", n)     \* a loop of read and write until read returns 0
CheckingOp    == Call("operator", 0)
ShuttingDown  == Call("shutdown", 0)
Closing       == Call("close", 0)

\* Bound: a user types at most two messages.
Typed(send, receive) ==
  <<Connecting, Prompting, send, receive, Prompting, send, receive, Closing>>

Msg == 2          \* a message of an echo client
BufSize == 3      \* BUF_SIZE

-----------------------------------------------------------------------------
(* Chapters 4, 5, 15 and 23: echo *)

echo_client == Typed(Writing(Msg), Reading(BufSize))

echo_server == <<Listening, Accepting, Echoing(BufSize), Closing, Again>>

\* One read per message, as in chapter 4.
ReadOnce == Typed(Writing(Msg), Reading(Msg))

\* The loop is there to read what write returned: after a -1, nothing.
echo_client2 == Typed(OnError("skips", Writing(Msg)), OnError("ends", ReadingAll(Msg)))

echo_server5 == <<Listening, Accepting, Echoing(BufSize), Closing, Again>>

echo_client_win == Typed(Writing(Msg), Reading(BufSize))

\* recv returns SOCKET_ERROR again and again after a reset: Echo then never ends.
echo_server_win == <<Listening, Accepting, Echoing(BufSize), Closing, Again>>

\* Adds up what recv returns, SOCKET_ERROR included, until it has what it sent.
StableEchoClnt == Typed(Writing(Msg), OnError("summed", ReadingAll(Msg)))

\* A message is a line, one unit, and fgets waits for all of it; when it returns NULL
\* the client prints its own old line and turns to its user again.
echo_stdclnt == Typed(Writing(1), Reading(1))

\* feof turns true only after fgets has failed, so the last line is sent twice.
echo_stdserv == <<Listening, Accepting, Echoing(1), Writing(1), Closing, Again>>

\* Each end waits for the end of file before it goes on, so what follows is never
\* reached and not spelt out: the server closes for the message Q alone and reads on
\* after any other, and the client never closes but turns to its user again.
test_echo_client == <<Connecting, Writing(Msg), OnError("retried", ReadingEof(1)), Closing>>
test_echo_server ==
  <<Listening, Accepting, OnError("ends", ReadingEof(1)), Writing(Msg), Closing, Again>>

-----------------------------------------------------------------------------
(* Chapter 5: operations.  A count (one unit), operands, an operator (one). *)

OpSz == 2
Operands == 2
Request == 1 + Operands * OpSz + 1

op_client == <<Connecting, Writing(Request), Reading(OpSz), Closing>>

RequestReadOnce ==
  <<Listening, Accepting, Reading(1), Reading(Request - 1), Writing(OpSz), Closing, Again>>

op_server ==
  <<Listening, Accepting, Reading(1), OnError("unsigned", ReadingAll(Request - 1)),
    Writing(OpSz), Closing, Again>>

me_op_client ==
  <<Connecting, Writing(1), Writing(OpSz), Writing(OpSz), Writing(1), Reading(OpSz), Closing>>

\* One read for each operand, however much of it has come.
me_op_server ==
  <<Listening, Accepting, Reading(1), Reading(OpSz), Reading(OpSz), Reading(1),
    CheckingOp, Writing(OpSz), Closing, Again>>

-----------------------------------------------------------------------------
(* Chapters 7 and 16: a transfer that ends with a half-close *)

NotHalfClosed == <<Listening, Accepting, Writing(3), Writing(3), Writing(1), Reading(3), Closing>>

\* Buffers of a file, the last one short; then the message that comes back.
file_server ==
  <<Listening, Accepting, Writing(3), Writing(3), Writing(1), ShuttingDown, Reading(3), Closing>>

OneBufferOnly == <<Connecting, Reading(3), Writing(1), Closing>>

\* fwrite gets the -1 of a failed read as its size.
file_client == <<Connecting, OnError("undefined", ReadingEof(3)), Writing(1), Closing>>

\* Three lines in one buffer of writefp; fclose of both streams at the end.
sep_serv2 == <<Listening, Accepting, Writing(3), ShuttingDown, Reading(1), Closing>>
sep_clnt  == <<Connecting, ReadingEof(1), Writing(1), Closing>>

-----------------------------------------------------------------------------
(* Chapters 1, 2, 13 and 22: one message *)

hello_server == <<Listening, Accepting, Writing(2), Closing>>
hello_client == <<Connecting, OnError("ends", Reading(3)), Closing>>
hello_server_win == <<Listening, Accepting, Writing(2), Closing>>
hello_client_win == <<Connecting, OnError("ends", Reading(3)), Closing>>

\* Two messages, read one byte at a time until the end of file.
tcp_server == <<Listening, Accepting, Writing(2), Writing(1), Closing>>
tcp_client == <<Connecting, OnError("ends", ReadingEof(1)), Closing>>
tcp_server_win == <<Listening, Accepting, Writing(2), Closing>>
tcp_client_win == <<Connecting, OnError("ends", ReadingEof(1)), Closing>>

\* What is peeked at is still there for the read that follows.
peek_recv == <<Listening, Accepting, Peeking, Reading(3), Closing>>
peek_send == <<Connecting, Writing(3), Closing>>

\* One overlapped operation, waited for on an event or by a completion routine.
OverlappedRecv  == <<Listening, Accepting, Reading(3), Closing>>
CmpRoutinesRecv == <<Listening, Accepting, OnError("ends", Reading(3)), Closing>>
OverlappedSend  == <<Connecting, Writing(2), Closing>>

-----------------------------------------------------------------------------
(* Who talks to whom *)

Talk(name, serv, clnt, win) == [name |-> name, server |-> serv, client |-> clnt, win |-> win]

Pairs == {
  Talk("echo",         echo_server,      echo_client,      FALSE),
  Talk("echo2",        echo_server5,     echo_client2,     FALSE),
  Talk("echo_win",     echo_server_win,  echo_client_win,  TRUE),
  Talk("stable",       echo_server_win,  StableEchoClnt,   TRUE),
  Talk("std",          echo_stdserv,     echo_stdclnt,     FALSE),
  Talk("test",         test_echo_server, test_echo_client, FALSE),
  Talk("op",           op_server,        op_client,        FALSE),
  Talk("me_op",        me_op_server,     me_op_client,     FALSE),
  Talk("file",         file_server,      file_client,      FALSE),
  Talk("sep",          sep_serv2,        sep_clnt,         FALSE),
  Talk("hello",        hello_server,     hello_client,     FALSE),
  Talk("hello_win",    hello_server_win, hello_client_win, TRUE),
  Talk("tcp",          tcp_server,       tcp_client,       FALSE),
  Talk("tcp_win",      tcp_server_win,   tcp_client_win,   TRUE),
  Talk("peek",         peek_recv,        peek_send,        FALSE),
  Talk("overlapped",   OverlappedRecv,   OverlappedSend,   TRUE),
  Talk("routine",      CmpRoutinesRecv,  OverlappedSend,   TRUE)}
=============================================================================
