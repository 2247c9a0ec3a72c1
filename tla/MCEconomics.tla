----------------------------- MODULE MCEconomics -----------------------------
EXTENDS Emission

MCOffers == {[size |-> 0, fee |-> 0], [size |-> 250, fee |-> 61]}
MCBlocks == {[size |-> 420, fee |-> 17], [size |-> 560, fee |-> 90]}
MCLags == {-3, 0, 2}
Spec == EmissionInit /\ [][EmissionNext]_emissionVars
==============================================================================
