---------------------------- MODULE MCArtifacts -----------------------------
EXTENDS Artifacts, TLC
CONSTANT seed
MCImported == {[version |-> 1, content |-> seed]}
=============================================================================
