---------------------------- MODULE MCMessageQCopy ----------------------------
\* The endpoints with a bound: the last object is created only when no sender but
\* one is in a call, and the others begin no more.  All senders meet at the first
\* object; the second takes its number while one of them sends.  (It bounds what no
\* fairness asks for: creating an object and beginning to send.)
EXTENDS MessageQCopy

CONSTANT LastSender

OneSenderAtLast ==
  (\A o \in Objects : life'[o] # "unused") =>
    \A s \in Senders \ {LastSender} : pc'[s] = "idle"
=============================================================================
