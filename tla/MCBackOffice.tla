---------------------------- MODULE MCBackOffice ----------------------------
EXTENDS BackOffice, TLC
Symmetry == Permutations(Recipients)

\* Tickets, the FAQ, the money and the papers share slots and nothing else, so
\* a behaviour is explored while the calls of one of the four are in it.
UsedTickets == \E t \in Tickets: tickets[t] # None
UsedFaqs == \E f \in Faqs: faqs[f] # None \/ Working(f)
UsedMoney == debits # <<>> \/ moves > 0 \/ reports # {}
UsedPapers == sars # {} \/ \E d \in Disputes: disputes[d] # None
OneDesk ==
  Cardinality({d \in 1..4: <<UsedTickets, UsedFaqs, UsedMoney, UsedPapers>>[d]}) <= 1
=============================================================================
