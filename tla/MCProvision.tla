---------------------------- MODULE MCProvision ----------------------------
EXTENDS Provision, TLC
CONSTANTS apex, shop
\* A new zone, and one in use: its catch-all is of another service, and a rule to the
\* worker is there already for every address, of an earlier installation say.  A zone
\* switched off with its catch-all kept comes of a removal.
MCZones ==
  {[on |-> FALSE, catchAll |-> "drop", sending |-> {}, rules |-> {}],
   [on |-> TRUE, catchAll |-> "other", sending |-> Hosts, rules |-> Hosts]}
\* The hostnames are treated alike.
HostSymmetry == Permutations(Hosts)
=============================================================================
