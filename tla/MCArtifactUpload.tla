-------------------------- MODULE MCArtifactUpload --------------------------
EXTENDS ArtifactUpload
=============================================================================
