---------------------------- MODULE MCSqlSession ---------------------------
(* Small instances of SqlSession for TLC. *)
EXTENDS SqlSession, TLC

CONSTANTS g1, g2, n1, n2

MCListeners == {g1}
MCClients == {g2}
MCBoth == {g1, g2}
NoClients == {}
MCChannels == {"a", "b"}
MCOneChannel == {"a"}
MCNotifs == {n1, n2}
MCOneNotif == {n1}
ChanSame == [n \in Notifs |-> "a"]

=============================================================================
