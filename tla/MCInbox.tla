------------------------------ MODULE MCInbox ------------------------------
EXTENDS Inbox
=============================================================================
