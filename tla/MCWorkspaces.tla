---------------------------- MODULE MCWorkspaces ----------------------------
EXTENDS Workspaces, TLC
MCSymmetry == Permutations(Users) \cup Permutations(Slots)
              \cup Permutations(Invitations)
=============================================================================
