----------------------------- MODULE MCWebhooks -----------------------------
EXTENDS Webhooks

MCHeard == [e \in Events |-> Subs]
=============================================================================
