--------------------------- MODULE MCSystemProxy ---------------------------
(* The instance of SystemProxy for TLC. *)
EXTENDS SystemProxy, TLC

CONSTANTS wifi, ethernet, p

MCServices == <<wifi, ethernet>>
Unset == [value |-> "off", held |-> "none"]
Off == [value |-> "off", held |-> p]
On == [value |-> p, held |-> p]
\* What the user may have set.  Nothing; or on one network service an HTTP proxy
\* for one protocol, a SOCKS proxy and, for the other protocol, an address that is
\* switched off, and on the other service addresses that are all switched off.
Mixed == [wifi |-> [web |-> On, secure |-> Off, socks |-> On],
          ethernet |-> [web |-> Off, secure |-> Unset, socks |-> Off]]
MCUserSettings ==
    {[f \in Field |-> Unset],
     [f \in Field |-> IF f[1] = wifi THEN Mixed.wifi[f[2]] ELSE Mixed.ethernet[f[2]]]}

\* Bound: where a setting may be lost already, only what follows the first fault.
Followed == lossCause \subseteq {"cut"} \/ faults <= 1
=============================================================================
