---------------------------- MODULE SessionScripts ----------------------------
(* The frame orders of one exec that the runs use: at most two data frames. *)
EXTENDS Sequences

\* Status before Close, in the order sshd emits with and without a PTY.
Outputs == {<<>>, <<"data">>, <<"data", "data">>}
StatusThenEof == {o \o <<"status", "eof", "close">> : o \in Outputs}
EofThenStatus == {o \o <<"eof", "status", "close">> : o \in Outputs}
NoStatus      == {o \o <<"eof", "close">> : o \in Outputs}
StatusInTime  == StatusThenEof \cup EofThenStatus \cup NoStatus

\* The order of issue #41, where the status follows the close.
CloseThenStatus == {o \o <<"eof", "close", "status">> : o \in Outputs}

\* The status is sent when the process exits, with output still in the pipe.
DataAfterStatus == {<<"data", "status", "data", "eof", "close">>}

\* EOF and then silence: the command closed its output, or the server hangs.
Silent == {<<"data", "eof">>, <<"data">>, <<"eof", "status">>}

AnyOrder == StatusInTime \cup CloseThenStatus \cup DataAfterStatus \cup Silent
==============================================================================
