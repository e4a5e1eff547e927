-------------------------------- MODULE MCComm --------------------------------
EXTENDS Comm

\* The standard streams are 0 to 2; the epoll instance and two sockets follow,
\* and one more would be a leak.
Fds == 3 .. 6

=============================================================================
