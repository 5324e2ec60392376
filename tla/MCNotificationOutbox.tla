------------------------ MODULE MCNotificationOutbox ------------------------
(* NotificationOutbox for TLC: the emails are of one workspace, the hooks  *)
(* are for one endpoint.                                                   *)
EXTENDS NotificationOutbox

CONSTANTS e1, e2, h1, h2, w1, w2, lab, url

MCPlaceOf == [e \in Email |-> lab]
MCEndpointOf == [h \in Hook |-> url]

=============================================================================
