------------------------------- MODULE MCMail -------------------------------
\* The inbox of examples/gmail alone, for what its README says of refused mail.
EXTENDS MailSync

Spec == MailInit /\ [][MailNext]_mailVars
=============================================================================
