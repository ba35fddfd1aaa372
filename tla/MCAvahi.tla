------------------------------ MODULE MCAvahi ------------------------------
(* Constants of the Avahi model that a configuration file cannot spell. *)
EXTENDS Avahi

\* AVAHI_ERR_FAILURE, whose value is that of Result::PENDING, and
\* AVAHI_ERR_NO_DAEMON
MCErrors == {-1, -26}

\* only the second, for the runs in which the error's value plays no role
MCOneError == {-26}
=============================================================================
