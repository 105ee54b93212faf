------------------------ MODULE MCCampaignWorkspace ------------------------
\* Model-checking instances of CampaignWorkspace.
EXTENDS CampaignWorkspace, TLC

\* Commands differ in nothing but their name.
Symmetry == Permutations(Process)
=============================================================================
