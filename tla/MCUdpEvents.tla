---------------------------- MODULE MCUdpEvents -----------------------------
(* Instances of UdpEvents for TLC.                                          *)
EXTENDS UdpEvents, TLC

\* Every subscription is made on the first service and for the first event.
MCOneService == [s \in Subs |-> CHOOSE v \in Services : TRUE]
MCOneEvent == [s \in Subs |-> CHOOSE e \in Events : TRUE]

\* Each subscription on a service, or for an event, of its own.
MCOwnService == CHOOSE f \in [Subs -> Services] : IsInjective(f)
MCOwnEvent == CHOOSE f \in [Subs -> Events] : IsInjective(f)
=============================================================================
